---- MODULE Spec2Model ----
(***************************************************************************)
(* Rule evaluation and risk classification of the certificate-of-insurance *)
(* (COI) analyzer: parse_limit_to_number, mock_compliance_check,           *)
(* calculate_extraction_confidence and the check_coi_compliance handler,   *)
(* the mock analyzers of the other document types, and the accounts,       *)
(* sessions, credits and premium unlocks behind the paywall.               *)
(*                                                                         *)
(* Python values are represented as follows.                               *)
(*   str            a sequence of one-character strings                    *)
(*   None           the one-element sequence None (no str has a            *)
(*                  character of more than one letter)                     *)
(*   finding names  sequences of words; `x in name` of the source is a     *)
(*                  contiguous-subsequence test on words                   *)
(*   dict           a function on its keys; d.get(k, v) is Get(d, k, v)    *)
(***************************************************************************)
EXTENDS Integers, Sequences, FiniteSets, TLC

VARIABLES pc, coi_data, requirements, state, result, input, MOCK_MODE, response, uploads,
          tables, db, tasks, now, history

vars == <<pc, coi_data, requirements, state, result, input, MOCK_MODE, response, uploads,
          tables, db, tasks, now, history>>

----------------------------------------------------------------------------
(* Bounds of the model *)

\* GL per-occurrence limits on a certificate: LimitAmount(k) for k in 1..MaxOccSteps
MaxOccSteps == 3
\* aggregate and umbrella limits: LimitAmount(k) for k in 5..MaxAggSteps
MaxAggSteps == 5

\* the k-th limit amount a certificate can show
LimitAmount(k) == k * 500000

----------------------------------------------------------------------------
(* Python values *)

None == <<"None">>

Get(d, k, default) == IF k \in DOMAIN d THEN d[k] ELSE default

\* truthiness of an Optional[str]
Truthy(s) == s # None /\ s # <<>>

Min(S) == CHOOSE x \in S : \A y \in S : x <= y
Max(S) == CHOOSE x \in S : \A y \in S : x >= y

LowerCase == <<"a","b","c","d","e","f","g","h","i","j","k","l","m",
               "n","o","p","q","r","s","t","u","v","w","x","y","z">>
UpperCase == <<"A","B","C","D","E","F","G","H","I","J","K","L","M",
               "N","O","P","Q","R","S","T","U","V","W","X","Y","Z">>
Digits == <<"0","1","2","3","4","5","6","7","8","9">>
Whitespace == {" "}

\* lower-case letter to upper-case letter
ToUpper ==
    [c \in {LowerCase[i] : i \in 1..26} |-> UpperCase[CHOOSE i \in 1..26 : LowerCase[i] = c]]

\* str.upper() on one character
UpperChar(c) == IF c \in DOMAIN ToUpper THEN ToUpper[c] ELSE c

\* str.upper()
StrUpper(s) == [i \in 1..Len(s) |-> UpperChar(s[i])]

\* str.replace(c, '')
RemoveChar(s, c) == SelectSeq(s, LAMBDA x : x # c)

\* the text between the first and the last element of keep
Between(s, keep) == IF keep = {} THEN <<>> ELSE SubSeq(s, Min(keep), Max(keep))

\* str.strip()
Strip(s) == Between(s, {i \in 1..Len(s) : s[i] \notin Whitespace})

\* decimal digit to its value
DigitValues ==
    [c \in {Digits[i] : i \in 1..10} |-> (CHOOSE i \in 1..10 : Digits[i] = c) - 1]

IsDigit(c) == c \in DOMAIN DigitValues
DigitVal(c) == DigitValues[c]
AllDigits(s) == Len(s) > 0 /\ \A i \in 1..Len(s) : IsDigit(s[i])

RECURSIVE DigitsValue(_)
DigitsValue(s) ==
    IF s = <<>> THEN 0
    ELSE DigitsValue(SubSeq(s, 1, Len(s) - 1)) * 10 + DigitVal(s[Len(s)])

RECURSIVE Pow10(_)
Pow10(n) == IF n = 0 THEN 1 ELSE 10 * Pow10(n - 1)

HasSign(s) == Len(s) > 0 /\ s[1] \in {"+", "-"}
Unsigned(s) == IF HasSign(s) THEN Tail(s) ELSE s
SignOf(s) == IF Len(s) > 0 /\ s[1] = "-" THEN -1 ELSE 1

\* int(s): optional surrounding whitespace, optional sign, decimal digits.
\* The result is [ok |-> FALSE] where int() raises ValueError.
IntSigned(t) ==
    IF AllDigits(Unsigned(t))
    THEN [ok |-> TRUE, value |-> SignOf(t) * DigitsValue(Unsigned(t))]
    ELSE [ok |-> FALSE, value |-> 0]

PyInt(s) == IntSigned(Strip(s))

\* index of the first decimal point of body, Len(body) + 1 when it has none
DotIndex(body) ==
    IF \E i \in 1..Len(body) : body[i] = "."
    THEN Min({i \in 1..Len(body) : body[i] = "."})
    ELSE Len(body) + 1

\* float() accepts digits with at most one decimal point and at least one
\* digit (text without exponent marker or underscore)
FloatWellFormed(ip, fp) ==
    /\ Len(ip) + Len(fp) > 0
    /\ \A i \in 1..Len(ip) : IsDigit(ip[i])
    /\ \A i \in 1..Len(fp) : IsDigit(fp[i])

\* the fraction digits without trailing zeros
RECURSIVE Significant(_)
Significant(fp) ==
    IF fp # <<>> /\ fp[Len(fp)] = "0" THEN Significant(SubSeq(fp, 1, Len(fp) - 1)) ELSE fp

\* e with 2^e <= n / d < 2^(e + 1), for n >= 1
RECURSIVE Binade(_, _)
Binade(n, d) ==
    IF n < d THEN Binade(2 * n, d) - 1
    ELSE IF n >= 2 * d THEN Binade(n, 2 * d) + 1
    ELSE 0

RECURSIVE Pow2(_)
Pow2(n) == IF n = 0 THEN 1 ELSE 2 * Pow2(n - 1)

\* (r * 2^times) % m
RECURSIVE DoubledMod(_, _, _)
DoubledMod(r, times, m) == IF times = 0 THEN r ELSE DoubledMod((2 * r) % m, times - 1, m)

\* float(n / 10^k) lies below n / 10^k by r / 10^k units in the last place,
\* r = n * 2^(52 - e) % 10^k with e the binade of n / 10^k, when 2 * r < 10^k
\* (the significand is rounded down); otherwise it does not lie below
Shortfall(n, k) == DoubledMod(n % Pow10(k), 52 - Binade(n, Pow10(k)), Pow10(k))

RoundsDown(r, k) == r > 0 /\ 2 * r < Pow10(k)

\* float(n / 10^k) * 10^m in binary64 is below the integer p = n * 10^(m - k):
\* the product of the rounded-down significand lies more than half a unit
\* in the last place of the numbers just below p under p
ProductBelow(r, k, m, p, steps) ==
    RoundsDown(r, k) /\ r * Pow10(m - k) > Pow2(steps - 1)

\* units in the last place between the binade of n / 10^k and the numbers
\* just below p, where the spacing is halved when p is a power of two
StepsBelow(n, k, p) ==
    Binade(p, 1) - Binade(n, Pow10(k)) - (IF Pow2(Binade(p, 1)) = p THEN 1 ELSE 0)

\* int(float(n / 10^k) * 10^m) for k <= m and n >= 1
TruncatedProduct(n, k, m, p) ==
    IF k > 0 /\ ProductBelow(Shortfall(n, k), k, m, p, StepsBelow(n, k, p)) THEN p - 1 ELSE p

\* int(float(n / 10^k) * 10^m) for n not a multiple of 10 when k > 0: an
\* integer product is the nearest integer or one below, any other product
\* truncates to its floor
ScaledDown(n, k, m) ==
    IF n = 0 THEN 0
    ELSE IF k <= m THEN TruncatedProduct(n, k, m, n * Pow10(m - k))
    ELSE n \div Pow10(k - m)

RECURSIVE Log10(_)
Log10(mult) == IF mult < 10 THEN 0 ELSE 1 + Log10(mult \div 10)

\* int(sign * ip.fp * mult), truncated toward zero
FloatScaled(sign, ip, fp, mult) ==
    IF FloatWellFormed(ip, fp)
    THEN [ok |-> TRUE,
          value |-> sign * ScaledDown(DigitsValue(ip \o Significant(fp)),
                                      Len(Significant(fp)), Log10(mult))]
    ELSE [ok |-> FALSE, value |-> 0]

FloatSplit(sign, body, dot, mult) ==
    FloatScaled(sign, SubSeq(body, 1, dot - 1), SubSeq(body, dot + 1, Len(body)), mult)

FloatSigned(t, mult) == FloatSplit(SignOf(t), Unsigned(t), DotIndex(Unsigned(t)), mult)

\* int(float(s) * mult) for mult a power of ten: float() accepts optional
\* whitespace and an optional sign.  The result is [ok |-> FALSE] where
\* float() raises ValueError.
PyIntOfFloatTimes(s, mult) == FloatSigned(Strip(s), mult)

\* the value parsed, 0 on `except`
ValueOrZero(r) == IF r.ok THEN r.value ELSE 0

Contains(s, c) == \E i \in 1..Len(s) : s[i] = c

\* the suffix handling of parse_limit_to_number on the cleaned text
ParseCleaned(cleaned) ==
    IF Contains(cleaned, "M")
    THEN ValueOrZero(PyIntOfFloatTimes(RemoveChar(cleaned, "M"), 1000000))
    ELSE IF Contains(cleaned, "K")
    THEN ValueOrZero(PyIntOfFloatTimes(RemoveChar(cleaned, "K"), 1000))
    ELSE ValueOrZero(PyInt(cleaned))

\* variant of parse_limit_to_number that leaves the thousands separators in
parse_limit_to_number_KeepsCommas(limit_str) ==
    IF ~Truthy(limit_str) THEN 0
    ELSE ParseCleaned(StrUpper(Strip(RemoveChar(limit_str, "$"))))

\* parse_limit_to_number: '$1,000,000' or '$1M' to an integer, 0 when the
\* value is empty or cannot be parsed
parse_limit_to_number(limit_str) ==
    IF ~Truthy(limit_str) THEN 0
    ELSE ParseCleaned(StrUpper(Strip(RemoveChar(RemoveChar(limit_str, "$"), ","))))

\* f"{n:,}" for n >= 0: decimal digits in groups of three
RECURSIVE FormatThousands(_)
FormatThousands(n) ==
    IF n < 1000 THEN
        IF n < 10 THEN <<Digits[n + 1]>>
        ELSE FormatThousands(n \div 10) \o <<Digits[(n % 10) + 1]>>
    ELSE FormatThousands(n \div 1000) \o
         <<",", Digits[((n \div 100) % 10) + 1], Digits[((n \div 10) % 10) + 1],
           Digits[(n % 10) + 1]>>

\* f"${n:,}"
FormatDollars(n) == <<"$">> \o FormatThousands(n)

----------------------------------------------------------------------------
(* Static tables: data.states and data.project_types *)

StateCodes ==
    {"AL", "AK", "AZ", "AR", "CA", "CO", "CT", "DE", "FL", "GA", "HI", "ID", "IL",
     "IN", "IA", "KS", "KY", "LA", "ME", "MD", "MA", "MI", "MN", "MS", "MO", "MT",
     "NE", "NV", "NH", "NJ", "NM", "NY", "NC", "ND", "OH", "OK", "OR", "PA", "RI",
     "SC", "SD", "TN", "TX", "UT", "VT", "VA", "WA", "WV", "WI", "WY", "DC"}

STATE_WORKERS_COMP ==
    "AL" :> [required |-> TRUE, threshold |-> 5, monopolistic |-> FALSE] @@
    "AK" :> [required |-> TRUE, threshold |-> 1, monopolistic |-> FALSE] @@
    "AZ" :> [required |-> TRUE, threshold |-> 1, monopolistic |-> FALSE] @@
    "AR" :> [required |-> TRUE, threshold |-> 3, monopolistic |-> FALSE] @@
    "CA" :> [required |-> TRUE, threshold |-> 1, monopolistic |-> FALSE] @@
    "CO" :> [required |-> TRUE, threshold |-> 1, monopolistic |-> FALSE] @@
    "CT" :> [required |-> TRUE, threshold |-> 1, monopolistic |-> FALSE] @@
    "DE" :> [required |-> TRUE, threshold |-> 1, monopolistic |-> FALSE] @@
    "FL" :> [required |-> TRUE, threshold |-> 1, monopolistic |-> FALSE] @@
    "GA" :> [required |-> TRUE, threshold |-> 3, monopolistic |-> FALSE] @@
    "HI" :> [required |-> TRUE, threshold |-> 1, monopolistic |-> FALSE] @@
    "ID" :> [required |-> TRUE, threshold |-> 1, monopolistic |-> FALSE] @@
    "IL" :> [required |-> TRUE, threshold |-> 1, monopolistic |-> FALSE] @@
    "IN" :> [required |-> TRUE, threshold |-> 1, monopolistic |-> FALSE] @@
    "IA" :> [required |-> TRUE, threshold |-> 1, monopolistic |-> FALSE] @@
    "KS" :> [required |-> TRUE, threshold |-> 1, monopolistic |-> FALSE] @@
    "KY" :> [required |-> TRUE, threshold |-> 1, monopolistic |-> FALSE] @@
    "LA" :> [required |-> TRUE, threshold |-> 1, monopolistic |-> FALSE] @@
    "ME" :> [required |-> TRUE, threshold |-> 1, monopolistic |-> FALSE] @@
    "MD" :> [required |-> TRUE, threshold |-> 1, monopolistic |-> FALSE] @@
    "MA" :> [required |-> TRUE, threshold |-> 1, monopolistic |-> FALSE] @@
    "MI" :> [required |-> TRUE, threshold |-> 1, monopolistic |-> FALSE] @@
    "MN" :> [required |-> TRUE, threshold |-> 1, monopolistic |-> FALSE] @@
    "MS" :> [required |-> TRUE, threshold |-> 5, monopolistic |-> FALSE] @@
    "MO" :> [required |-> TRUE, threshold |-> 1, monopolistic |-> FALSE] @@
    "MT" :> [required |-> TRUE, threshold |-> 1, monopolistic |-> FALSE] @@
    "NE" :> [required |-> TRUE, threshold |-> 1, monopolistic |-> FALSE] @@
    "NV" :> [required |-> TRUE, threshold |-> 1, monopolistic |-> FALSE] @@
    "NH" :> [required |-> TRUE, threshold |-> 1, monopolistic |-> FALSE] @@
    "NJ" :> [required |-> TRUE, threshold |-> 1, monopolistic |-> FALSE] @@
    "NM" :> [required |-> TRUE, threshold |-> 1, monopolistic |-> FALSE] @@
    "NY" :> [required |-> TRUE, threshold |-> 1, monopolistic |-> FALSE] @@
    "NC" :> [required |-> TRUE, threshold |-> 3, monopolistic |-> FALSE] @@
    "ND" :> [required |-> TRUE, threshold |-> 1, monopolistic |-> TRUE] @@
    "OH" :> [required |-> TRUE, threshold |-> 1, monopolistic |-> TRUE] @@
    "OK" :> [required |-> TRUE, threshold |-> 1, monopolistic |-> FALSE] @@
    "OR" :> [required |-> TRUE, threshold |-> 1, monopolistic |-> FALSE] @@
    "PA" :> [required |-> TRUE, threshold |-> 1, monopolistic |-> FALSE] @@
    "RI" :> [required |-> TRUE, threshold |-> 1, monopolistic |-> FALSE] @@
    "SC" :> [required |-> TRUE, threshold |-> 4, monopolistic |-> FALSE] @@
    "SD" :> [required |-> TRUE, threshold |-> 1, monopolistic |-> FALSE] @@
    "TN" :> [required |-> TRUE, threshold |-> 1, monopolistic |-> FALSE] @@
    "TX" :> [required |-> FALSE, threshold |-> 0, monopolistic |-> FALSE] @@
    "UT" :> [required |-> TRUE, threshold |-> 1, monopolistic |-> FALSE] @@
    "VT" :> [required |-> TRUE, threshold |-> 1, monopolistic |-> FALSE] @@
    "VA" :> [required |-> TRUE, threshold |-> 3, monopolistic |-> FALSE] @@
    "WA" :> [required |-> TRUE, threshold |-> 1, monopolistic |-> TRUE] @@
    "WV" :> [required |-> TRUE, threshold |-> 1, monopolistic |-> FALSE] @@
    "WI" :> [required |-> TRUE, threshold |-> 3, monopolistic |-> FALSE] @@
    "WY" :> [required |-> TRUE, threshold |-> 1, monopolistic |-> TRUE] @@
    "DC" :> [required |-> TRUE, threshold |-> 1, monopolistic |-> FALSE]

STATE_ANTI_INDEMNITY ==
    "AL" :> [type |-> "Partial", voids_ai_for_sole_negligence |-> FALSE, insurance_savings_clause |-> TRUE] @@
    "AK" :> [type |-> "Partial", voids_ai_for_sole_negligence |-> FALSE, insurance_savings_clause |-> TRUE] @@
    "AZ" :> [type |-> "Broad", voids_ai_for_sole_negligence |-> TRUE, insurance_savings_clause |-> FALSE] @@
    "AR" :> [type |-> "Partial", voids_ai_for_sole_negligence |-> FALSE, insurance_savings_clause |-> TRUE] @@
    "CA" :> [type |-> "Intermediate", voids_ai_for_sole_negligence |-> FALSE, insurance_savings_clause |-> TRUE] @@
    "CO" :> [type |-> "Broad", voids_ai_for_sole_negligence |-> TRUE, insurance_savings_clause |-> FALSE] @@
    "CT" :> [type |-> "Partial", voids_ai_for_sole_negligence |-> FALSE, insurance_savings_clause |-> TRUE] @@
    "DE" :> [type |-> "Partial", voids_ai_for_sole_negligence |-> FALSE, insurance_savings_clause |-> TRUE] @@
    "FL" :> [type |-> "Intermediate", voids_ai_for_sole_negligence |-> FALSE, insurance_savings_clause |-> TRUE] @@
    "GA" :> [type |-> "Broad", voids_ai_for_sole_negligence |-> TRUE, insurance_savings_clause |-> FALSE] @@
    "HI" :> [type |-> "Partial", voids_ai_for_sole_negligence |-> FALSE, insurance_savings_clause |-> TRUE] @@
    "ID" :> [type |-> "Partial", voids_ai_for_sole_negligence |-> FALSE, insurance_savings_clause |-> TRUE] @@
    "IL" :> [type |-> "Intermediate", voids_ai_for_sole_negligence |-> FALSE, insurance_savings_clause |-> TRUE] @@
    "IN" :> [type |-> "Partial", voids_ai_for_sole_negligence |-> FALSE, insurance_savings_clause |-> TRUE] @@
    "IA" :> [type |-> "None", voids_ai_for_sole_negligence |-> FALSE, insurance_savings_clause |-> TRUE] @@
    "KS" :> [type |-> "Broad", voids_ai_for_sole_negligence |-> TRUE, insurance_savings_clause |-> FALSE] @@
    "KY" :> [type |-> "None", voids_ai_for_sole_negligence |-> FALSE, insurance_savings_clause |-> TRUE] @@
    "LA" :> [type |-> "Partial", voids_ai_for_sole_negligence |-> FALSE, insurance_savings_clause |-> TRUE] @@
    "ME" :> [type |-> "None", voids_ai_for_sole_negligence |-> FALSE, insurance_savings_clause |-> TRUE] @@
    "MD" :> [type |-> "Intermediate", voids_ai_for_sole_negligence |-> FALSE, insurance_savings_clause |-> TRUE] @@
    "MA" :> [type |-> "Partial", voids_ai_for_sole_negligence |-> FALSE, insurance_savings_clause |-> TRUE] @@
    "MI" :> [type |-> "Partial", voids_ai_for_sole_negligence |-> FALSE, insurance_savings_clause |-> TRUE] @@
    "MN" :> [type |-> "Partial", voids_ai_for_sole_negligence |-> FALSE, insurance_savings_clause |-> TRUE] @@
    "MS" :> [type |-> "Partial", voids_ai_for_sole_negligence |-> FALSE, insurance_savings_clause |-> TRUE] @@
    "MO" :> [type |-> "Partial", voids_ai_for_sole_negligence |-> FALSE, insurance_savings_clause |-> TRUE] @@
    "MT" :> [type |-> "Broad", voids_ai_for_sole_negligence |-> TRUE, insurance_savings_clause |-> FALSE] @@
    "NE" :> [type |-> "Partial", voids_ai_for_sole_negligence |-> FALSE, insurance_savings_clause |-> TRUE] @@
    "NV" :> [type |-> "Partial", voids_ai_for_sole_negligence |-> FALSE, insurance_savings_clause |-> TRUE] @@
    "NH" :> [type |-> "None", voids_ai_for_sole_negligence |-> FALSE, insurance_savings_clause |-> TRUE] @@
    "NJ" :> [type |-> "Partial", voids_ai_for_sole_negligence |-> FALSE, insurance_savings_clause |-> TRUE] @@
    "NM" :> [type |-> "Intermediate", voids_ai_for_sole_negligence |-> FALSE, insurance_savings_clause |-> TRUE] @@
    "NY" :> [type |-> "Intermediate", voids_ai_for_sole_negligence |-> FALSE, insurance_savings_clause |-> TRUE] @@
    "NC" :> [type |-> "Partial", voids_ai_for_sole_negligence |-> FALSE, insurance_savings_clause |-> TRUE] @@
    "ND" :> [type |-> "None", voids_ai_for_sole_negligence |-> FALSE, insurance_savings_clause |-> TRUE] @@
    "OH" :> [type |-> "Partial", voids_ai_for_sole_negligence |-> FALSE, insurance_savings_clause |-> TRUE] @@
    "OK" :> [type |-> "Partial", voids_ai_for_sole_negligence |-> FALSE, insurance_savings_clause |-> TRUE] @@
    "OR" :> [type |-> "Broad", voids_ai_for_sole_negligence |-> TRUE, insurance_savings_clause |-> FALSE] @@
    "PA" :> [type |-> "Partial", voids_ai_for_sole_negligence |-> FALSE, insurance_savings_clause |-> TRUE] @@
    "RI" :> [type |-> "Partial", voids_ai_for_sole_negligence |-> FALSE, insurance_savings_clause |-> TRUE] @@
    "SC" :> [type |-> "Intermediate", voids_ai_for_sole_negligence |-> FALSE, insurance_savings_clause |-> TRUE] @@
    "SD" :> [type |-> "None", voids_ai_for_sole_negligence |-> FALSE, insurance_savings_clause |-> TRUE] @@
    "TN" :> [type |-> "Intermediate", voids_ai_for_sole_negligence |-> FALSE, insurance_savings_clause |-> TRUE] @@
    "TX" :> [type |-> "Intermediate", voids_ai_for_sole_negligence |-> FALSE, insurance_savings_clause |-> TRUE] @@
    "UT" :> [type |-> "Partial", voids_ai_for_sole_negligence |-> FALSE, insurance_savings_clause |-> TRUE] @@
    "VT" :> [type |-> "None", voids_ai_for_sole_negligence |-> FALSE, insurance_savings_clause |-> TRUE] @@
    "VA" :> [type |-> "Intermediate", voids_ai_for_sole_negligence |-> FALSE, insurance_savings_clause |-> TRUE] @@
    "WA" :> [type |-> "Intermediate", voids_ai_for_sole_negligence |-> FALSE, insurance_savings_clause |-> TRUE] @@
    "WV" :> [type |-> "None", voids_ai_for_sole_negligence |-> FALSE, insurance_savings_clause |-> TRUE] @@
    "WI" :> [type |-> "Partial", voids_ai_for_sole_negligence |-> FALSE, insurance_savings_clause |-> TRUE] @@
    "WY" :> [type |-> "None", voids_ai_for_sole_negligence |-> FALSE, insurance_savings_clause |-> TRUE] @@
    "DC" :> [type |-> "Partial", voids_ai_for_sole_negligence |-> FALSE, insurance_savings_clause |-> TRUE]

STATE_GL_REQUIREMENTS ==
    "AL" :> [required_for_license |-> TRUE, minimum_per_occurrence |-> 100000] @@
    "AK" :> [required_for_license |-> TRUE, minimum_per_occurrence |-> 0] @@
    "AZ" :> [required_for_license |-> TRUE, minimum_per_occurrence |-> 0] @@
    "AR" :> [required_for_license |-> FALSE, minimum_per_occurrence |-> 0] @@
    "CA" :> [required_for_license |-> FALSE, minimum_per_occurrence |-> 0] @@
    "CO" :> [required_for_license |-> FALSE, minimum_per_occurrence |-> 0] @@
    "CT" :> [required_for_license |-> FALSE, minimum_per_occurrence |-> 0] @@
    "DE" :> [required_for_license |-> FALSE, minimum_per_occurrence |-> 0] @@
    "FL" :> [required_for_license |-> TRUE, minimum_per_occurrence |-> 300000] @@
    "GA" :> [required_for_license |-> TRUE, minimum_per_occurrence |-> 0] @@
    "HI" :> [required_for_license |-> TRUE, minimum_per_occurrence |-> 0] @@
    "ID" :> [required_for_license |-> FALSE, minimum_per_occurrence |-> 0] @@
    "IL" :> [required_for_license |-> FALSE, minimum_per_occurrence |-> 0] @@
    "IN" :> [required_for_license |-> FALSE, minimum_per_occurrence |-> 0] @@
    "IA" :> [required_for_license |-> FALSE, minimum_per_occurrence |-> 0] @@
    "KS" :> [required_for_license |-> FALSE, minimum_per_occurrence |-> 0] @@
    "KY" :> [required_for_license |-> FALSE, minimum_per_occurrence |-> 0] @@
    "LA" :> [required_for_license |-> TRUE, minimum_per_occurrence |-> 100000] @@
    "ME" :> [required_for_license |-> FALSE, minimum_per_occurrence |-> 0] @@
    "MD" :> [required_for_license |-> TRUE, minimum_per_occurrence |-> 100000] @@
    "MA" :> [required_for_license |-> FALSE, minimum_per_occurrence |-> 0] @@
    "MI" :> [required_for_license |-> TRUE, minimum_per_occurrence |-> 0] @@
    "MN" :> [required_for_license |-> TRUE, minimum_per_occurrence |-> 0] @@
    "MS" :> [required_for_license |-> TRUE, minimum_per_occurrence |-> 0] @@
    "MO" :> [required_for_license |-> FALSE, minimum_per_occurrence |-> 0] @@
    "MT" :> [required_for_license |-> FALSE, minimum_per_occurrence |-> 0] @@
    "NE" :> [required_for_license |-> FALSE, minimum_per_occurrence |-> 0] @@
    "NV" :> [required_for_license |-> TRUE, minimum_per_occurrence |-> 0] @@
    "NH" :> [required_for_license |-> FALSE, minimum_per_occurrence |-> 0] @@
    "NJ" :> [required_for_license |-> FALSE, minimum_per_occurrence |-> 0] @@
    "NM" :> [required_for_license |-> TRUE, minimum_per_occurrence |-> 0] @@
    "NY" :> [required_for_license |-> FALSE, minimum_per_occurrence |-> 0] @@
    "NC" :> [required_for_license |-> TRUE, minimum_per_occurrence |-> 0] @@
    "ND" :> [required_for_license |-> FALSE, minimum_per_occurrence |-> 0] @@
    "OH" :> [required_for_license |-> FALSE, minimum_per_occurrence |-> 0] @@
    "OK" :> [required_for_license |-> FALSE, minimum_per_occurrence |-> 0] @@
    "OR" :> [required_for_license |-> TRUE, minimum_per_occurrence |-> 0] @@
    "PA" :> [required_for_license |-> FALSE, minimum_per_occurrence |-> 0] @@
    "RI" :> [required_for_license |-> FALSE, minimum_per_occurrence |-> 0] @@
    "SC" :> [required_for_license |-> TRUE, minimum_per_occurrence |-> 0] @@
    "SD" :> [required_for_license |-> FALSE, minimum_per_occurrence |-> 0] @@
    "TN" :> [required_for_license |-> TRUE, minimum_per_occurrence |-> 0] @@
    "TX" :> [required_for_license |-> FALSE, minimum_per_occurrence |-> 0] @@
    "UT" :> [required_for_license |-> TRUE, minimum_per_occurrence |-> 0] @@
    "VT" :> [required_for_license |-> FALSE, minimum_per_occurrence |-> 0] @@
    "VA" :> [required_for_license |-> TRUE, minimum_per_occurrence |-> 0] @@
    "WA" :> [required_for_license |-> TRUE, minimum_per_occurrence |-> 0] @@
    "WV" :> [required_for_license |-> FALSE, minimum_per_occurrence |-> 0] @@
    "WI" :> [required_for_license |-> FALSE, minimum_per_occurrence |-> 0] @@
    "WY" :> [required_for_license |-> FALSE, minimum_per_occurrence |-> 0] @@
    "DC" :> [required_for_license |-> FALSE, minimum_per_occurrence |-> 0]

PROJECT_TYPE_REQUIREMENTS ==
    "commercial_construction" :> [name |-> "Commercial Construction", gl_per_occurrence |-> 1000000, gl_aggregate |-> 2000000, umbrella_required |-> TRUE, umbrella_minimum |-> 2000000, workers_comp_required |-> TRUE, auto_liability_required |-> TRUE, additional_insured_required |-> TRUE, waiver_of_subrogation_required |-> TRUE, primary_noncontributory_required |-> TRUE, cg_20_10_required |-> TRUE, cg_20_37_required |-> TRUE] @@
    "residential_construction" :> [name |-> "Residential Construction", gl_per_occurrence |-> 500000, gl_aggregate |-> 1000000, umbrella_required |-> FALSE, umbrella_minimum |-> 0, workers_comp_required |-> TRUE, auto_liability_required |-> TRUE, additional_insured_required |-> TRUE, waiver_of_subrogation_required |-> FALSE, primary_noncontributory_required |-> FALSE, cg_20_10_required |-> FALSE, cg_20_37_required |-> FALSE] @@
    "government_municipal" :> [name |-> "Government/Municipal", gl_per_occurrence |-> 2000000, gl_aggregate |-> 4000000, umbrella_required |-> TRUE, umbrella_minimum |-> 5000000, workers_comp_required |-> TRUE, auto_liability_required |-> TRUE, additional_insured_required |-> TRUE, waiver_of_subrogation_required |-> TRUE, primary_noncontributory_required |-> TRUE, cg_20_10_required |-> TRUE, cg_20_37_required |-> TRUE] @@
    "industrial_manufacturing" :> [name |-> "Industrial/Manufacturing", gl_per_occurrence |-> 2000000, gl_aggregate |-> 4000000, umbrella_required |-> TRUE, umbrella_minimum |-> 5000000, workers_comp_required |-> TRUE, auto_liability_required |-> TRUE, additional_insured_required |-> TRUE, waiver_of_subrogation_required |-> TRUE, primary_noncontributory_required |-> TRUE, cg_20_10_required |-> TRUE, cg_20_37_required |-> TRUE]

\* the tables as the process holds them once the modules are imported
StartupTables ==
    [PROJECT_TYPE_REQUIREMENTS |-> PROJECT_TYPE_REQUIREMENTS,
     STATE_WORKERS_COMP |-> STATE_WORKERS_COMP,
     STATE_ANTI_INDEMNITY |-> STATE_ANTI_INDEMNITY,
     STATE_GL_REQUIREMENTS |-> STATE_GL_REQUIREMENTS]

----------------------------------------------------------------------------
(* Accounts, sessions and premium unlocks *)

\* no row: User ids and session tokens are positive
NoUser == 0
NoToken == 0

\* hashlib.sha256(text.encode('utf-8')).hexdigest(): a digest that differs
\* from the text and that two texts of the model do not share
hash_document(text) == [sha256 |-> text]

\* the users, auth_sessions and premium_unlocks tables without a row
EmptyDb == [credits |-> <<>>, sessions |-> {}, unlocks |-> <<>>]

\* what the requests have produced so far: the tokens handed out, the
\* tokens a logout request was made with, the credits granted
NoHistory == [issued |-> {}, logged_out |-> {}, added |-> 0]

\* timedelta(days=30)
SessionDays == 30

\* db.query(User).filter(User.id == user_id).first() finds a row
UserExists(d, user_id) == user_id \in DOMAIN d.credits

\* User(credits default 0), committed by create_user
create_user(d, user_id) == [d EXCEPT !.credits = (user_id :> 0) @@ @]

\* AuthSession(user_id, token, expires_at = utcnow() + 30 days), committed
create_session(d, user_id, token, utcnow) ==
    [d EXCEPT !.sessions =
        @ \cup {[token |-> token, user_id |-> user_id, expires_at |-> utcnow + SessionDays]}]

\* the user of the unexpired session with that token, None without one
SessionUser(d, live) ==
    IF live = {} THEN NoUser
    ELSE IF UserExists(d, (CHOOSE s \in live : TRUE).user_id)
    THEN (CHOOSE s \in live : TRUE).user_id
    ELSE NoUser

get_user_from_token(d, token, utcnow) ==
    IF token = NoToken THEN NoUser
    ELSE SessionUser(d, {s \in d.sessions : s.token = token /\ s.expires_at > utcnow})

delete_session(d, token) == [d EXCEPT !.sessions = {s \in @ : s.token # token}]

\* PremiumUnlock(user_id, document_hash)
Unlock(user_id, document_hash) == [user_id |-> user_id, document_hash |-> document_hash]

check_premium_access(d, user_id, document_hash) ==
    \E i \in 1..Len(d.unlocks) : d.unlocks[i] = Unlock(user_id, document_hash)

\* request.headers.get("Authorization"), request.cookies.get("auth_token")
NoHeader == [scheme |-> "none", token |-> NoToken]
Bearer(token) == [scheme |-> "Bearer", token |-> token]
HeaderOf(request) ==
    IF "authorization" \in DOMAIN request THEN request.authorization ELSE NoHeader
CookieOf(request) ==
    IF "auth_token" \in DOMAIN request THEN request.auth_token ELSE NoToken

\* Try Authorization header first, then the cookie
get_current_user(d, request, utcnow) ==
    IF HeaderOf(request).scheme = "Bearer"
    THEN get_user_from_token(d, HeaderOf(request).token, utcnow)
    ELSE IF CookieOf(request) # NoToken
    THEN get_user_from_token(d, CookieOf(request), utcnow)
    ELSE NoUser

\* user.credits += credits; db.commit(), for a row loaded with `loaded` credits
CommitCredits(d, user_id, loaded, credits) ==
    [d EXCEPT !.credits[user_id] = loaded + credits]

\* user.credits -= 1; db.add(unlock); db.commit(), for a row loaded with
\* `loaded` credits
CommitUnlock(d, user_id, document_hash, loaded) ==
    [d EXCEPT !.credits[user_id] = loaded - 1,
              !.unlocks = Append(@, Unlock(user_id, document_hash))]

\* the value a call returns next to the database it leaves
Outcome(d, returned) == [db |-> d, returned |-> returned]

add_credits_to_user(d, user_id, credits) ==
    IF UserExists(d, user_id)
    THEN Outcome(CommitCredits(d, user_id, d.credits[user_id], credits), TRUE)
    ELSE Outcome(d, FALSE)

use_credit(d, user_id, document_hash) ==
    IF ~UserExists(d, user_id) THEN Outcome(d, FALSE)
    ELSE IF d.credits[user_id] < 1 THEN Outcome(d, FALSE)
    ELSE IF check_premium_access(d, user_id, document_hash) THEN Outcome(d, TRUE)
    ELSE Outcome(CommitUnlock(d, user_id, document_hash, d.credits[user_id]), TRUE)

\* a process that has imported its tables, with an empty database and no
\* request in flight
AtStartup ==
    /\ tables = StartupTables
    /\ db = EmptyDb
    /\ tasks = <<>>
    /\ now = 0
    /\ history = NoHistory

----------------------------------------------------------------------------
(* mock_compliance_check *)

\* One appended entry: the list it is appended to and the finding itself.
\* required_value and explanation are display text and are not modelled.
Emit(list, name, status, actual) ==
    <<[list |-> list, name |-> name, status |-> status, actual_value |-> actual]>>

\* `a or default` on an Optional[str]
OrElse(a, default) == IF Truthy(a) THEN a ELSE default

\* Check GL per occurrence
GLPerOccurrenceFinding(coi_limit, req_limit, gl_per_occ_value) ==
    IF coi_limit >= req_limit
    THEN Emit("passed", <<"GL", "Per", "Occurrence", "Limit">>, "pass", gl_per_occ_value)
    ELSE Emit("critical_gaps", <<"GL", "Per", "Occurrence", "Limit">>, "fail", gl_per_occ_value)

GLPerOccurrenceRule(coi, req) ==
    GLPerOccurrenceFinding(
        parse_limit_to_number(OrElse(Get(coi, "gl_limit_per_occurrence", <<>>), <<>>)),
        Get(req, "gl_per_occurrence", 1000000),
        OrElse(Get(coi, "gl_limit_per_occurrence", None), <<"Not specified">>))

\* Check GL aggregate
GLAggregateFinding(coi_agg, req_agg, gl_agg_value) ==
    IF coi_agg >= req_agg
    THEN Emit("passed", <<"GL", "Aggregate", "Limit">>, "pass", gl_agg_value)
    ELSE Emit("critical_gaps", <<"GL", "Aggregate", "Limit">>, "fail", gl_agg_value)

GLAggregateRule(coi, req) ==
    GLAggregateFinding(
        parse_limit_to_number(OrElse(Get(coi, "gl_limit_aggregate", <<>>), <<>>)),
        Get(req, "gl_aggregate", 2000000),
        OrElse(Get(coi, "gl_limit_aggregate", None), <<"Not specified">>))

\* variant of AdditionalInsuredRule that only warns about an unchecked box
AdditionalInsuredRule_WarnsOnly(coi, req) ==
    IF Get(req, "additional_insured_required", TRUE)
    THEN IF Get(coi, "additional_insured_checked", FALSE)
            /\ (Get(coi, "cg_20_10_endorsement", FALSE) \/ Get(coi, "cg_20_37_endorsement", FALSE))
         THEN Emit("passed", <<"Additional", "Insured", "Status">>, "pass",
                   <<"Box checked with endorsement referenced">>)
         ELSE Emit("warnings", <<"Additional", "Insured", "Endorsement">>, "warning",
                   <<"Box checked but no endorsement number listed">>)
    ELSE <<>>

\* Check Additional Insured
AdditionalInsuredRule(coi, req) ==
    IF Get(req, "additional_insured_required", TRUE)
    THEN IF Get(coi, "additional_insured_checked", FALSE)
         THEN IF Get(coi, "cg_20_10_endorsement", FALSE) \/ Get(coi, "cg_20_37_endorsement", FALSE)
              THEN Emit("passed", <<"Additional", "Insured", "Status">>, "pass",
                        <<"Box checked with endorsement referenced">>)
              ELSE Emit("warnings", <<"Additional", "Insured", "Endorsement">>, "warning",
                        <<"Box checked but no endorsement number listed">>)
         ELSE Emit("critical_gaps", <<"Additional", "Insured", "Status">>, "fail",
                   <<"Additional Insured box NOT checked">>)
    ELSE <<>>

\* variant of WaiverOfSubrogationRule with the test of the box negated
WaiverOfSubrogationRule_Negated(coi, req) ==
    IF Get(req, "waiver_of_subrogation_required", TRUE)
    THEN IF ~Get(coi, "waiver_of_subrogation_checked", FALSE)
         THEN Emit("passed", <<"Waiver", "of", "Subrogation">>, "pass",
                   <<"Waiver of Subrogation checked">>)
         ELSE Emit("critical_gaps", <<"Waiver", "of", "Subrogation">>, "fail",
                   <<"Waiver of Subrogation NOT checked">>)
    ELSE <<>>

\* Check Waiver of Subrogation
WaiverOfSubrogationRule(coi, req) ==
    IF Get(req, "waiver_of_subrogation_required", TRUE)
    THEN IF Get(coi, "waiver_of_subrogation_checked", FALSE)
         THEN Emit("passed", <<"Waiver", "of", "Subrogation">>, "pass",
                   <<"Waiver of Subrogation checked">>)
         ELSE Emit("critical_gaps", <<"Waiver", "of", "Subrogation">>, "fail",
                   <<"Waiver of Subrogation NOT checked">>)
    ELSE <<>>

\* Check Workers Comp
WorkersCompRule(coi, req) ==
    IF Get(req, "workers_comp_required", TRUE)
    THEN IF Get(coi, "workers_comp", FALSE)
         THEN Emit("passed", <<"Workers", "Compensation">>, "pass", <<"Workers Comp present">>)
         ELSE Emit("critical_gaps", <<"Workers", "Compensation">>, "fail", <<"Workers Comp NOT shown">>)
    ELSE <<>>

UmbrellaFinding(umbrella_limit, req_umbrella, shown) ==
    IF umbrella_limit >= req_umbrella
    THEN Emit("passed", <<"Umbrella/Excess", "Liability">>, "pass",
              OrElse(shown, <<"Not specified">>))
    ELSE Emit("warnings", <<"Umbrella/Excess", "Liability">>, "warning",
              OrElse(shown, <<"Not shown">>))

\* variant of UmbrellaRule that records a pass when no umbrella is required
UmbrellaRule_PassByDefault(coi, req) ==
    IF Get(req, "umbrella_required", FALSE)
    THEN UmbrellaFinding(
             parse_limit_to_number(OrElse(Get(coi, "umbrella_limit", <<>>), <<>>)),
             Get(req, "umbrella_minimum", 2000000),
             Get(coi, "umbrella_limit", None))
    ELSE Emit("passed", <<"Umbrella/Excess", "Liability">>, "pass", <<"Not required">>)

\* Check Umbrella if required
UmbrellaRule(coi, req) ==
    IF Get(req, "umbrella_required", FALSE)
    THEN UmbrellaFinding(
             parse_limit_to_number(OrElse(Get(coi, "umbrella_limit", <<>>), <<>>)),
             Get(req, "umbrella_minimum", 2000000),
             Get(coi, "umbrella_limit", None))
    ELSE <<>>

\* state = None
NoState == "<None>"

\* state.upper() on a jurisdiction code; codes are atomic strings and the
\* lower-case spellings the model draws are tabulated
StateUpper(s) ==
    CASE s = "tx" -> "TX"
      [] s = "zz" -> "ZZ"
      [] OTHER -> s

\* state_upper = state.upper() if state else None (None and '' are falsy)
state_upper_of(st) == IF st = NoState \/ st = "" THEN NoState ELSE StateUpper(st)

\* TABLE.get(state_upper) if state_upper else None, tested for truth
HasRules(table, su) == su # NoState /\ su \in DOMAIN table

AntiIndemnityFinding(su, ai_rules) ==
    IF ai_rules.voids_ai_for_sole_negligence
    THEN Emit("warnings", <<su, "Anti-Indemnity", "Note">>, "warning",
              <<"Limited by state statute">>)
    ELSE IF ai_rules.type # "None"
    THEN Emit("warnings", <<su, "Anti-Indemnity">>, "warning",
              <<ai_rules.type, "statute applies">>)
    ELSE <<>>

\* variant of AntiIndemnityRule that notes a statute for a code of no table
AntiIndemnityRule_NotesUnknownCode(su) ==
    IF HasRules(STATE_ANTI_INDEMNITY, su)
    THEN AntiIndemnityFinding(su, STATE_ANTI_INDEMNITY[su])
    ELSE IF su # NoState
    THEN Emit("warnings", <<su, "Anti-Indemnity">>, "warning", <<"statute applies">>)
    ELSE <<>>

\* Anti-Indemnity Statute Note
AntiIndemnityRule(su) ==
    IF HasRules(STATE_ANTI_INDEMNITY, su)
    THEN AntiIndemnityFinding(su, STATE_ANTI_INDEMNITY[su])
    ELSE <<>>

StateWorkersCompFinding(su, wc_rules, workers_comp) ==
    IF ~wc_rules.required
    THEN Emit("warnings", <<su, "Workers", "Comp">>,
              IF ~workers_comp THEN "warning" ELSE "pass",
              IF workers_comp THEN <<"Present">> ELSE <<"Not shown">>)
    ELSE IF wc_rules.monopolistic
    THEN Emit("passed", <<su, "Monopolistic", "State", "Fund">>, "pass",
              <<"Monopolistic state rules apply">>)
    ELSE IF wc_rules.threshold # 0 /\ wc_rules.threshold > 1
    THEN Emit("warnings", <<su, "WC", "Threshold">>, "warning", <<"Construction rule">>)
    ELSE <<>>

\* variant of StateWorkersCompRule that reports a certificate without
\* workers compensation as a critical gap where the state exempts it
StateWorkersCompRule_Critical(coi, su) ==
    IF HasRules(STATE_WORKERS_COMP, su)
    THEN IF ~STATE_WORKERS_COMP[su].required /\ ~Get(coi, "workers_comp", FALSE)
         THEN Emit("critical_gaps", <<su, "Workers", "Comp">>, "fail", <<"Not shown">>)
         ELSE StateWorkersCompFinding(su, STATE_WORKERS_COMP[su],
                                      Get(coi, "workers_comp", FALSE))
    ELSE <<>>

\* Workers Comp State-Specific Rules
StateWorkersCompRule(coi, su) ==
    IF HasRules(STATE_WORKERS_COMP, su)
    THEN StateWorkersCompFinding(su, STATE_WORKERS_COMP[su], Get(coi, "workers_comp", FALSE))
    ELSE <<>>

StateGLFinding(su, state_min, coi_limit, shown) ==
    IF coi_limit < state_min
    THEN Emit("warnings", <<su, "State", "GL", "Minimum">>, "warning", shown)
    ELSE <<>>

StateGLMinimum(coi, su, gl_rules) ==
    IF gl_rules.required_for_license /\ gl_rules.minimum_per_occurrence # 0
    THEN StateGLFinding(su, gl_rules.minimum_per_occurrence,
             parse_limit_to_number(OrElse(Get(coi, "gl_limit_per_occurrence", <<>>), <<>>)),
             Get(coi, "gl_limit_per_occurrence", <<"Not specified">>))
    ELSE <<>>

\* State GL Requirements
StateGLRule(coi, su) ==
    IF HasRules(STATE_GL_REQUIREMENTS, su)
    THEN StateGLMinimum(coi, su, STATE_GL_REQUIREMENTS[su])
    ELSE <<>>

\* the base rules, then the state-specific checks
RulesFor(coi, req, su) ==
    GLPerOccurrenceRule(coi, req) \o GLAggregateRule(coi, req)
    \o AdditionalInsuredRule(coi, req) \o WaiverOfSubrogationRule(coi, req)
    \o WorkersCompRule(coi, req) \o UmbrellaRule(coi, req)
    \o AntiIndemnityRule(su) \o StateWorkersCompRule(coi, su) \o StateGLRule(coi, su)

\* every append of mock_compliance_check, in program order
Emissions(coi, req, st) == RulesFor(coi, req, state_upper_of(st))

Finding(e) == [name |-> e.name, status |-> e.status, actual_value |-> e.actual_value]

Findings(sel) == [i \in 1..Len(sel) |-> Finding(sel[i])]

ListOf(emissions, list) == Findings(SelectSeq(emissions, LAMBDA e : e.list = list))

\* variant of OverallStatus that lets warnings pass unnoticed
OverallStatus_IgnoresWarnings(critical_gaps, warnings) ==
    IF Len(critical_gaps) > 0 THEN "non-compliant" ELSE "compliant"

\* Determine overall status
OverallStatus(critical_gaps, warnings) ==
    IF Len(critical_gaps) > 0 THEN "non-compliant"
    ELSE IF Len(warnings) > 0 THEN "needs-review"
    ELSE "compliant"

\* `sub in name` on word sequences
NameContains(name, sub) ==
    \E i \in 1..(Len(name) - Len(sub) + 1) : SubSeq(name, i, i + Len(sub) - 1) = sub

\* variant of GapExposure without the Waiver of Subrogation entry
GapExposure_NoWaiver(gap) ==
    IF NameContains(gap.name, <<"GL">>) THEN 1000000
    ELSE IF NameContains(gap.name, <<"Additional", "Insured">>) THEN 3500000
    ELSE 0

\* exposure attributed to one critical gap
GapExposure(gap) ==
    IF NameContains(gap.name, <<"GL">>) THEN 1000000
    ELSE IF NameContains(gap.name, <<"Additional", "Insured">>) THEN 3500000
    ELSE IF NameContains(gap.name, <<"Waiver">>) THEN 500000
    ELSE 0

\* Calculate risk exposure
RECURSIVE TotalGap(_)
TotalGap(critical_gaps) ==
    IF critical_gaps = <<>> THEN 0
    ELSE GapExposure(Head(critical_gaps)) + TotalGap(Tail(critical_gaps))

\* f"${total_gap:,}+ potential liability exposure" if total_gap > 0
\* else "Minimal risk exposure"
RiskExposure(total_gap) ==
    IF total_gap > 0
    THEN FormatDollars(total_gap) \o <<"+ potential liability exposure">>
    ELSE <<"Minimal risk exposure">>

\* the ITEMS REQUIRING CORRECTION lines: critical gaps, then warnings
FixItems(critical_gaps, warnings) ==
    [i \in 1..(Len(critical_gaps) + Len(warnings)) |->
        IF i <= Len(critical_gaps) THEN critical_gaps[i].name
        ELSE warnings[i - Len(critical_gaps)].name]

\* Generate mock extraction metadata (overall_confidence in hundredths)
MockExtractionMetadata(coi, critical_gaps) ==
    [overall_confidence |-> 75,
     needs_human_review |-> Len(critical_gaps) > 0 \/ ~Get(coi, "additional_insured_checked", FALSE),
     review_reasons |-> <<<<"Mock extraction - recommend verification with actual document">>>>
        \o [i \in 1..Min({2, Len(critical_gaps)}) |-> <<"Critical gap:">> \o critical_gaps[i].name],
     low_confidence_fields |->
        IF ~Get(coi, "cg_20_10_endorsement", FALSE)
        THEN <<"cg_20_10_endorsement", "cg_20_37_endorsement">> ELSE <<>>]

\* one ITEMS REQUIRING CORRECTION line, f"- {name}: {explanation}", by the
\* name of the finding it is written from
FixLine(name) == <<"- ">> \o name

FixLines(fix_items) == [i \in 1..Len(fix_items) |-> FixLine(fix_items[i])]

\* "- General Liability: ${gl_per_occurrence:,} per occurrence /
\* ${gl_aggregate:,} aggregate"
GeneralLiabilityLine(req) ==
    <<"- General Liability: ">> \o FormatDollars(Get(req, "gl_per_occurrence", 1000000))
    \o <<" per occurrence / ">> \o FormatDollars(Get(req, "gl_aggregate", 2000000))
    \o <<" aggregate">>

AdditionalInsuredLine ==
    <<"- Additional Insured endorsement (CG 20 10 for ongoing operations, CG 20 37 for completed operations)">>

WaiverLine == <<"- Waiver of Subrogation endorsement">>

WorkersCompLine == <<"- Workers Compensation at statutory limits">>

\* the lines after "Per our contract agreement, the following insurance
\* requirements must be met:"
RequirementLines(req) ==
    <<GeneralLiabilityLine(req), AdditionalInsuredLine, WaiverLine, WorkersCompLine>>

\* Generate fix request letter: the salutation, the items and the
\* requirements; the other lines are fixed text
FixLetter(coi, req, fix_items) ==
    [dear |-> Get(coi, "insured_name", <<"[Subcontractor Name]">>),
     items |-> FixLines(fix_items),
     requirements |-> RequirementLines(req)]

\* the returned dict
Report(coi, req, critical_gaps, warnings, passed) ==
    [overall_status |-> OverallStatus(critical_gaps, warnings),
     coi_data |-> coi,
     critical_gaps |-> critical_gaps,
     warnings |-> warnings,
     passed |-> passed,
     risk_exposure |-> RiskExposure(TotalGap(critical_gaps)),
     fix_items |-> FixItems(critical_gaps, warnings),
     fix_request_letter |-> FixLetter(coi, req, FixItems(critical_gaps, warnings)),
     extraction_metadata |-> MockExtractionMetadata(coi, critical_gaps)]

ReportOf(coi, req, emissions) ==
    Report(coi, req, ListOf(emissions, "critical_gaps"), ListOf(emissions, "warnings"),
           ListOf(emissions, "passed"))

mock_compliance_check(coi, req, st) == ReportOf(coi, req, Emissions(coi, req, st))

----------------------------------------------------------------------------
(* Inputs *)

\* limit strings as an extractor writes them
OccStrings ==
    {None, <<"g", "a", "r", "b", "a", "g", "e">>}
    \cup {FormatDollars(LimitAmount(k)) : k \in 1..MaxOccSteps}
AggStrings ==
    {None} \cup {FormatDollars(LimitAmount(k)) : k \in 5..MaxAggSteps}
UmbrellaStrings ==
    {None} \cup {FormatDollars(LimitAmount(k)) : k \in 5..MaxAggSteps}

Certificates ==
    [gl_limit_per_occurrence : OccStrings,
     gl_limit_aggregate : AggStrings,
     umbrella_limit : UmbrellaStrings,
     workers_comp : BOOLEAN,
     additional_insured_checked : BOOLEAN,
     waiver_of_subrogation_checked : BOOLEAN,
     cg_20_10_endorsement : BOOLEAN,
     cg_20_37_endorsement : BOOLEAN]

PresetRequirements == {PROJECT_TYPE_REQUIREMENTS[p] : p \in DOMAIN PROJECT_TYPE_REQUIREMENTS}

\* caller-supplied requirement bundles; absent keys take the defaults of
\* requirements.get
CustomRequirements ==
    {[gl_per_occurrence |-> 500000, additional_insured_required |-> FALSE,
      waiver_of_subrogation_required |-> FALSE, workers_comp_required |-> FALSE],
     [umbrella_required |-> TRUE]}

RequirementSets == PresetRequirements \cup CustomRequirements

\* what the rules read of a state's table entries
StateClass(s) ==
    <<STATE_ANTI_INDEMNITY[s].voids_ai_for_sole_negligence,
      STATE_ANTI_INDEMNITY[s].type # "None",
      STATE_WORKERS_COMP[s].required,
      STATE_WORKERS_COMP[s].monopolistic,
      STATE_WORKERS_COMP[s].threshold > 1,
      IF STATE_GL_REQUIREMENTS[s].required_for_license
      THEN STATE_GL_REQUIREMENTS[s].minimum_per_occurrence ELSE 0>>

\* one state code for every distinct combination of table entries
RepresentativeStates ==
    {CHOOSE s \in StateCodes : StateClass(s) = c : c \in {StateClass(s) : s \in StateCodes}}

\* no state, representative codes, an unknown code and a lower-case code
StateInputs == RepresentativeStates \cup {NoState, "ZZ", "tx"}

NoResult == [overall_status |-> "none"]

\* no requirements argument
NoRequirements == [name |-> "none"]

\* JSON null where a dict or a list is expected
Null == [null |-> TRUE]

\* input.project_type is None
NoProjectType == "<None>"

\* no request yet
NoInput ==
    [coi_text |-> None, project_type |-> NoProjectType,
     custom_requirements |-> Null, state |-> NoState]

\* no response yet
NoResponse == [status_code |-> 0]

----------------------------------------------------------------------------
(* Direct evaluation of one certificate *)

InitMock ==
    /\ pc = "call"
    /\ coi_data \in Certificates
    /\ requirements \in RequirementSets
    /\ state \in StateInputs
    /\ result = NoResult
    /\ input = NoInput
    /\ MOCK_MODE = TRUE
    /\ response = NoResponse
    /\ uploads = 0
    /\ AtStartup

MockComplianceCheck ==
    /\ pc = "call"
    /\ result' = mock_compliance_check(coi_data, requirements, state)
    /\ pc' = "return"
    /\ UNCHANGED <<coi_data, requirements, state, input, MOCK_MODE, response, uploads,
                   tables, db, tasks, now, history>>

NextMock == MockComplianceCheck

Spec == InitMock /\ [][NextMock]_vars

----------------------------------------------------------------------------
(* Properties of mock_compliance_check *)

AllFindings(r) == r.critical_gaps \o r.warnings \o r.passed

\* number of findings, over the three lists, whose status field is st
NumWithStatus(r, st) ==
    Cardinality({i \in 1..Len(AllFindings(r)) : AllFindings(r)[i].status = st})

\* number of findings, over the three lists, named by one of names
NumNamed(r, names) ==
    Cardinality({i \in 1..Len(AllFindings(r)) : AllFindings(r)[i].name \in names})

\* number of critical gaps named by one of names
NumCriticalNamed(r, names) ==
    Cardinality({i \in 1..Len(r.critical_gaps) : r.critical_gaps[i].name \in names})

GLOccName == <<"GL", "Per", "Occurrence", "Limit">>
GLAggName == <<"GL", "Aggregate", "Limit">>
AIStatusName == <<"Additional", "Insured", "Status">>
AIEndorsementName == <<"Additional", "Insured", "Endorsement">>
WaiverName == <<"Waiver", "of", "Subrogation">>
WorkersCompName == <<"Workers", "Compensation">>
UmbrellaName == <<"Umbrella/Excess", "Liability">>

\* C1: overall_status is "non-compliant" iff at least one finding of
\* severity fail was emitted, "needs-review" iff none was but at least one
\* finding of severity warning was, and "compliant" otherwise; it is
\* determined by the numbers of findings of each severity alone.
C1_StatusFromSeverities ==
    pc = "return" =>
        /\ result.overall_status = "non-compliant" <=> NumWithStatus(result, "fail") >= 1
        /\ result.overall_status = "needs-review" <=>
               (NumWithStatus(result, "fail") = 0 /\ NumWithStatus(result, "warning") >= 1)
        /\ result.overall_status = "compliant" <=>
               (NumWithStatus(result, "fail") = 0 /\ NumWithStatus(result, "warning") = 0)

\* a report with warnings and no critical gap
C1_Witness ==
    /\ pc = "return"
    /\ result.overall_status = "needs-review"
    /\ NumWithStatus(result, "fail") = 0
    /\ NumWithStatus(result, "warning") >= 1

\* C2: every applicable base rule (GL per occurrence, GL aggregate,
\* Additional Insured, Waiver of Subrogation, Workers Compensation, Umbrella)
\* has exactly one finding over critical_gaps, warnings and passed together,
\* and a rule whose profile flag is off has none.
C2_OneFindingPerApplicableRule ==
    pc = "return" =>
        /\ NumNamed(result, {GLOccName}) = 1
        /\ NumNamed(result, {GLAggName}) = 1
        /\ NumNamed(result, {AIStatusName, AIEndorsementName}) =
               (IF Get(requirements, "additional_insured_required", TRUE) THEN 1 ELSE 0)
        /\ NumNamed(result, {WaiverName}) =
               (IF Get(requirements, "waiver_of_subrogation_required", TRUE) THEN 1 ELSE 0)
        /\ NumNamed(result, {WorkersCompName}) =
               (IF Get(requirements, "workers_comp_required", TRUE) THEN 1 ELSE 0)
        /\ NumNamed(result, {UmbrellaName}) =
               (IF Get(requirements, "umbrella_required", FALSE) THEN 1 ELSE 0)

\* a profile that does not require an umbrella, and a report without an
\* umbrella finding
C2_Witness ==
    /\ pc = "return"
    /\ "umbrella_required" \in DOMAIN requirements
    /\ ~requirements.umbrella_required
    /\ NumNamed(result, {UmbrellaName}) = 0
    /\ NumNamed(result, {WaiverName}) = 0
    /\ NumNamed(result, {WorkersCompName}) = 1

\* the exposure table applied to the critical gaps of a report
TableExposure(r) ==
    1000000 * NumCriticalNamed(r, {GLOccName, GLAggName})
    + 3500000 * NumCriticalNamed(r, {AIStatusName})
    + 500000 * NumCriticalNamed(r, {WaiverName})

\* C3: risk_exposure is the sum over the critical gaps of $1,000,000 per GL
\* gap, $3,500,000 per Additional Insured gap and $500,000 per Waiver of
\* Subrogation gap; warnings and passed findings contribute nothing; with no
\* critical gap it is the sentinel "Minimal risk exposure", and it is never
\* an amount of $0.
C3_ExposureTable ==
    pc = "return" =>
        /\ result.risk_exposure =
               (IF TableExposure(result) > 0
                THEN FormatDollars(TableExposure(result)) \o <<"+ potential liability exposure">>
                ELSE <<"Minimal risk exposure">>)
        /\ Len(result.critical_gaps) = 0 => result.risk_exposure = <<"Minimal risk exposure">>
        /\ result.risk_exposure # FormatDollars(0) \o <<"+ potential liability exposure">>

\* a report with a waiver gap and an additional-insured gap next to warnings
C3_Witness ==
    /\ pc = "return"
    /\ NumCriticalNamed(result, {WaiverName}) = 1
    /\ NumCriticalNamed(result, {AIStatusName}) = 1
    /\ Len(result.warnings) > 0
    /\ result.risk_exposure = FormatDollars(4000000) \o <<"+ potential liability exposure">>

\* C8: in Texas a certificate without workers compensation, checked against
\* a preset profile, has no critical workers-compensation finding.
C8_TexasNoCriticalWorkersComp ==
    (/\ pc = "return"
     /\ state_upper_of(state) = "TX"
     /\ ~coi_data.workers_comp
     /\ requirements \in PresetRequirements)
    => \A i \in 1..Len(result.critical_gaps) :
           ~NameContains(result.critical_gaps[i].name, <<"Workers">>)

\* Scenario A: commercial construction, no state, GL per occurrence
\* "$500,000", Additional Insured not checked, everything else as required
ScenarioA ==
    /\ requirements = PROJECT_TYPE_REQUIREMENTS["commercial_construction"]
    /\ state = NoState
    /\ coi_data.gl_limit_per_occurrence = <<"$", "5", "0", "0", ",", "0", "0", "0">>
    /\ ~coi_data.additional_insured_checked
    /\ parse_limit_to_number(coi_data.gl_limit_aggregate) >= requirements.gl_aggregate
    /\ parse_limit_to_number(coi_data.umbrella_limit) >= requirements.umbrella_minimum
    /\ coi_data.waiver_of_subrogation_checked
    /\ coi_data.workers_comp

\* C9: Scenario A yields exactly the two critical findings "GL Per
\* Occurrence Limit" and "Additional Insured Status", overall_status
\* "non-compliant" and an exposure estimate of at least $4,500,000.
C9_ScenarioA ==
    (pc = "return" /\ ScenarioA) =>
        /\ [i \in 1..Len(result.critical_gaps) |-> result.critical_gaps[i].name]
               = <<GLOccName, AIStatusName>>
        /\ \A i \in 1..Len(result.critical_gaps) : result.critical_gaps[i].status = "fail"
        /\ result.overall_status = "non-compliant"
        /\ \E k \in 9..20 :
               result.risk_exposure =
                   FormatDollars(k * 500000) \o <<"+ potential liability exposure">>

C9_Witness == pc = "return" /\ ScenarioA /\ Len(result.critical_gaps) = 2

\* Scenario B: commercial construction, no state, a certificate meeting
\* every requirement
ScenarioB ==
    /\ requirements = PROJECT_TYPE_REQUIREMENTS["commercial_construction"]
    /\ state = NoState
    /\ coi_data.gl_limit_per_occurrence = <<"$", "1", ",", "5", "0", "0", ",", "0", "0", "0">>
    /\ coi_data.gl_limit_aggregate = <<"$", "2", ",", "5", "0", "0", ",", "0", "0", "0">>
    /\ coi_data.umbrella_limit = <<"$", "2", ",", "5", "0", "0", ",", "0", "0", "0">>
    /\ coi_data.additional_insured_checked
    /\ coi_data.cg_20_10_endorsement
    /\ coi_data.waiver_of_subrogation_checked
    /\ coi_data.workers_comp

\* C10: Scenario B yields overall_status "compliant" with no critical and
\* no warning finding.
C10_ScenarioB ==
    (pc = "return" /\ ScenarioB) =>
        /\ result.overall_status = "compliant"
        /\ result.critical_gaps = <<>>
        /\ result.warnings = <<>>
        /\ NumWithStatus(result, "fail") = 0
        /\ NumWithStatus(result, "warning") = 0

C10_Witness == pc = "return" /\ ScenarioB /\ Len(result.passed) = 6

----------------------------------------------------------------------------
(* calculate_extraction_confidence *)

\* Critical fields that need confidence assessment
critical_fields ==
    <<"gl_limit_per_occurrence", "gl_limit_aggregate", "additional_insured_checked",
      "waiver_of_subrogation_checked", "cg_20_10_endorsement", "cg_20_37_endorsement">>

\* {}
EmptyDict == [k \in {} |-> Null]

\* isinstance(x, dict)
IsDict(x) == "null" \notin DOMAIN x

\* level = field_conf.get('level', 'low') if isinstance(field_conf, dict) else 'low'
LevelOf(field_conf) == IF IsDict(field_conf) THEN Get(field_conf, "level", "low") ELSE "low"

\* the reason reported for a low-confidence field
ReasonOf(field_conf) ==
    IF IsDict(field_conf)
    THEN Get(field_conf, "reason", <<"Not clearly visible in document">>)
    ELSE <<"No confidence data">>

\* binary64 numbers in [0, 8) as <<hi, lo>>: the value is
\* (hi * 2^28 + lo) * 2^-54
LimbBase == 268435456

DoubleZero == <<0, 0>>
\* 1.0, 0.7 = 0x1.6666666666666p-1, 0.3 = 0x1.3333333333333p-2
DoubleOne == <<67108864, 0>>
DoublePointSeven == <<46976204, 214748364>>
DoublePointThree == <<20132659, 53687091>>
\* 0.8 = 0x1.999999999999ap-1
DoublePointEight == <<53687091, 53687092>>

\* unit in the last place, in units of 2^-54, of a number with high limb hi
UlpOf(hi) ==
    IF hi >= 268435456 THEN 16
    ELSE IF hi >= 134217728 THEN 8
    ELSE IF hi >= 67108864 THEN 4
    ELSE IF hi >= 33554432 THEN 2
    ELSE 1

\* lo rounded to a multiple of ulp, ties to even
RoundedLow(lo, ulp) ==
    IF (lo % ulp) * 2 > ulp \/ ((lo % ulp) * 2 = ulp /\ (lo \div ulp) % 2 = 1)
    THEN lo - (lo % ulp) + ulp
    ELSE lo - (lo % ulp)

Carry(hi, lo) == IF lo >= LimbBase THEN <<hi + 1, lo - LimbBase>> ELSE <<hi, lo>>

DoubleRound(x) == Carry(x[1], RoundedLow(x[2], UlpOf(x[1])))

\* x + y in binary64, round to nearest even
DoubleAdd(x, y) == DoubleRound(Carry(x[1] + y[1], x[2] + y[2]))

DoubleLess(x, y) == x[1] < y[1] \/ (x[1] = y[1] /\ x[2] < y[2])

DoubleTimes(x, n) == <<x[1] * n + (x[2] * n) \div LimbBase, (x[2] * n) % LimbBase>>

DoublePred(x) == IF x[2] > 0 THEN <<x[1], x[2] - 1>> ELSE <<x[1] - 1, LimbBase - 1>>

\* s / n < t in binary64, for t in [0.5, 1) with an even significand: the
\* quotient rounds below t exactly when s / n lies below the midpoint of t
\* and its predecessor, one unit of 2^-54 below t
QuotientBelow(s, n, t) == DoubleLess(s, DoubleTimes(DoublePred(t), n))

\* the score appended for a level
ScoreOf(level) ==
    IF level = "high" THEN DoubleOne
    ELSE IF level = "medium" THEN DoublePointSeven
    ELSE DoublePointThree

\* the same score in tenths
TenthsOf(level) == IF level = "high" THEN 10 ELSE IF level = "medium" THEN 7 ELSE 3

\* sum(confidence_scores): left to right from 0
RECURSIVE SumScores(_, _)
SumScores(levels, acc) ==
    IF levels = <<>> THEN acc
    ELSE SumScores(Tail(levels), DoubleAdd(acc, ScoreOf(Head(levels))))

RECURSIVE SumTenths(_)
SumTenths(levels) ==
    IF levels = <<>> THEN 0 ELSE TenthsOf(Head(levels)) + SumTenths(Tail(levels))

\* round(sum / 6, 2) in hundredths.  The mean is a multiple of 1/60, at
\* least 1/600 away from every rounding boundary, so rounding the binary
\* quotient and rounding the decimal mean give the same hundredths.
RoundedMean(tenths, n) == (tenths * 100 + 5 * n) \div (10 * n)

\* field_conf of every critical field
FieldConfs(confidence_data) ==
    [i \in 1..Len(critical_fields) |-> Get(confidence_data, critical_fields[i], EmptyDict)]

LevelsOf(confs) == [i \in 1..Len(confs) |-> LevelOf(confs[i])]

IsLow(level) == level # "high" /\ level # "medium"

\* indices of the critical fields scored low, in field order
LowIndices(levels) == SelectSeq([i \in 1..Len(levels) |-> i], LAMBDA i : IsLow(levels[i]))

LowFields(low) == [j \in 1..Len(low) |-> critical_fields[low[j]]]

\* f"{field}: {reason}" for every low field
LowReasons(confs, low) ==
    [j \in 1..Len(low) |-> <<critical_fields[low[j]]>> \o ReasonOf(confs[low[j]])]

\* Add additional review reasons
ExtraReasons(coi) ==
    (IF ~Get(coi, "additional_insured_checked", FALSE)
     THEN <<<<"Additional Insured not checked - verify this is intentional">>>> ELSE <<>>)
    \o (IF ~Get(coi, "cg_20_10_endorsement", FALSE) /\ ~Get(coi, "cg_20_37_endorsement", FALSE)
        THEN <<<<"No CG endorsements found - may indicate incomplete coverage">>>> ELSE <<>>)

\* review_reasons[:5]
FirstFive(reasons) == SubSeq(reasons, 1, Min({5, Len(reasons)}))

\* needs_human_review = overall_confidence < 0.8 or len(low_confidence_fields) > 0
NeedsHumanReview(levels, low) ==
    QuotientBelow(SumScores(levels, DoubleZero), Len(levels), DoublePointEight) \/ Len(low) > 0

ConfidenceMetadata(coi, confs, levels, low) ==
    [overall_confidence |-> RoundedMean(SumTenths(levels), Len(levels)),
     needs_human_review |-> NeedsHumanReview(levels, low),
     review_reasons |-> FirstFive(LowReasons(confs, low) \o ExtraReasons(coi)),
     low_confidence_fields |-> LowFields(low)]

ConfidenceOfLevels(coi, confs, levels) ==
    ConfidenceMetadata(coi, confs, levels, LowIndices(levels))

ConfidenceOfConfs(coi, confs) == ConfidenceOfLevels(coi, confs, LevelsOf(confs))

\* an exception leaving the function
Raised(exception) == [raised |-> exception]

IsRaised(r) == "raised" \in DOMAIN r

\* calculate_extraction_confidence: confidence_data.get raises
\* AttributeError when coi_data['confidence'] is null
calculate_extraction_confidence(coi) ==
    IF IsDict(Get(coi, "confidence", EmptyDict))
    THEN ConfidenceOfConfs(coi, FieldConfs(Get(coi, "confidence", EmptyDict)))
    ELSE Raised("AttributeError")

----------------------------------------------------------------------------
(* Inputs of calculate_extraction_confidence *)

\* what an extractor can say about one field: nothing, or a level, a low
\* level coming with a reason
FieldAnnotations ==
    {Null, [level |-> "high"], [level |-> "medium"],
     [level |-> "low", reason |-> <<"Partially obscured">>]}

\* a mapping with an entry for every critical field; Null stands for a
\* field the mapping does not mention
FullMappings == [{critical_fields[i] : i \in 1..Len(critical_fields)} -> FieldAnnotations]

\* drop the fields mapped to Null
Mentioned(m) == [f \in {k \in DOMAIN m : m[k] # Null} |-> m[f]]

\* mappings that annotate only some fields, one with a null entry, one with
\* an unknown level, one with a low level and no reason
ConfidenceMappings ==
    {Mentioned(m) : m \in FullMappings}
    \cup {[gl_limit_per_occurrence |-> Null],
          [gl_limit_per_occurrence |-> [level |-> "HIGH"]],
          [gl_limit_per_occurrence |-> [level |-> "low"]]}

AnnotatedFacts ==
    [additional_insured_checked : BOOLEAN, cg_20_10_endorsement : BOOLEAN,
     cg_20_37_endorsement : {FALSE}]

WithConfidence(facts, c) == facts @@ [confidence |-> c]

\* extracted data whose confidence mapping is absent, null, or a mapping
AnnotatedCertificates ==
    AnnotatedFacts
    \cup {WithConfidence(f, Null) : f \in AnnotatedFacts}
    \cup {WithConfidence(f, c) : f \in AnnotatedFacts, c \in ConfidenceMappings}

InitConfidence ==
    /\ pc = "call"
    /\ coi_data \in AnnotatedCertificates
    /\ requirements = NoRequirements
    /\ state = NoState
    /\ result = NoResult
    /\ input = NoInput
    /\ MOCK_MODE = FALSE
    /\ response = NoResponse
    /\ uploads = 0
    /\ AtStartup

CalculateExtractionConfidence ==
    /\ pc = "call"
    /\ result' = calculate_extraction_confidence(coi_data)
    /\ pc' = IF IsRaised(calculate_extraction_confidence(coi_data)) THEN "raise" ELSE "return"
    /\ UNCHANGED <<coi_data, requirements, state, input, MOCK_MODE, response, uploads,
                   tables, db, tasks, now, history>>

NextConfidence == CalculateExtractionConfidence

SpecConfidence == InitConfidence /\ [][NextConfidence]_vars

----------------------------------------------------------------------------
(* Properties of calculate_extraction_confidence *)

\* the level the claim assigns to a critical field: high, medium, or low
\* when the annotation is low, missing or unusable
ClaimedLevel(coi, field) ==
    IF "confidence" \in DOMAIN coi /\ IsDict(coi.confidence)
       /\ field \in DOMAIN coi.confidence /\ IsDict(coi.confidence[field])
       /\ "level" \in DOMAIN coi.confidence[field]
       /\ coi.confidence[field].level \in {"high", "medium"}
    THEN coi.confidence[field].level
    ELSE "low"

ClaimedLevels(coi) == [i \in 1..Len(critical_fields) |-> ClaimedLevel(coi, critical_fields[i])]

ClaimedLow(coi) ==
    SelectSeq(critical_fields, LAMBDA f : ClaimedLevel(coi, f) = "low")

\* C4: for every coi_data (confidence mapping absent, null or partial) the
\* function returns; overall_confidence is the mean of the six scores
\* high=1.0, medium=0.7, low or missing=0.3; low_confidence_fields lists
\* exactly the critical fields scored low; needs_human_review is true iff
\* the mean is below 0.8 or some critical field is low.
C4_ConfidenceGate ==
    pc # "call" =>
        /\ pc = "return"
        /\ result.overall_confidence = RoundedMean(SumTenths(ClaimedLevels(coi_data)), 6)
        /\ result.low_confidence_fields = ClaimedLow(coi_data)
        /\ result.needs_human_review <=>
               (SumTenths(ClaimedLevels(coi_data)) < 48 \/ ClaimedLow(coi_data) # <<>>)

----------------------------------------------------------------------------
(* check_coi_compliance *)

\* saved uploads the model follows
MaxUploads == 1

\* bool(d) of an Optional[dict]
TruthyDict(d) == IsDict(d) /\ DOMAIN d # {}

\* Get requirements from preset or custom
ChooseRequirements(project_type, custom_requirements) ==
    IF project_type # NoProjectType /\ project_type # ""
       /\ project_type \in DOMAIN PROJECT_TYPE_REQUIREMENTS
    THEN PROJECT_TYPE_REQUIREMENTS[project_type]
    ELSE IF TruthyDict(custom_requirements) THEN custom_requirements
    ELSE PROJECT_TYPE_REQUIREMENTS["commercial_construction"]

\* f"${match.group(1)}" of a pattern's match in the text, None without one
Dollar(group) == IF group = None THEN None ELSE <<"$">> \o group

\* mock_coi_extract on a text described by what its patterns find in it;
\* the keys the evaluation reads
mock_coi_extract(text) ==
    [gl_limit_per_occurrence |-> Dollar(text.each_occurrence),
     gl_limit_aggregate |-> Dollar(text.aggregate),
     workers_comp |-> text.workers_comp,
     umbrella_limit |-> Dollar(text.umbrella),
     additional_insured_checked |->
        text.additional_insured_marked
        \/ (text.additional_insured_named /\ text.x_mark),
     waiver_of_subrogation_checked |-> text.waiver_marked,
     cg_20_10_endorsement |-> text.cg_20_10,
     cg_20_37_endorsement |-> text.cg_20_37]

\* a list as a JSON value, so that it can stand next to null
JsonList(seq) == [items |-> seq]

\* the result dict with its lists as JSON values
JsonOf(r) ==
    [r EXCEPT !.critical_gaps = JsonList(@), !.warnings = JsonList(@), !.passed = JsonList(@)]

\* a reply that json.loads rejects
NotJson == [not_json |-> TRUE]

IsJson(v) == "not_json" \notin DOMAIN v

\* data.get(field) is None
FieldIsNone(data, field) == field \notin DOMAIN data \/ ~IsDict(data[field])

\* ComplianceReport.__init__: a missing or null list becomes []
ListOrEmpty(data, field) == IF FieldIsNone(data, field) THEN <<>> ELSE data[field].items

\* result.get(field, []) is None, on which len raises TypeError
GetIsNone(data, field) == field \in DOMAIN data /\ ~IsDict(data[field])

\* ComplianceRequirement: actual_value: str
RequirementsValidate(list) == \A i \in 1..Len(list) : list[i].actual_value # None

\* COIData: confidence: Optional[dict[str, FieldConfidence]], level: str
CoiValidates(coi) ==
    "confidence" \in DOMAIN coi /\ IsDict(coi.confidence) =>
        \A f \in DOMAIN coi.confidence :
            IsDict(coi.confidence[f]) /\ "level" \in DOMAIN coi.confidence[f]

\* ComplianceReport: the fields without a default are present (the letter
\* is carried by fix_items) and the nested models validate
ReportValidates(data) ==
    /\ {"overall_status", "coi_data", "risk_exposure", "fix_items"} \subseteq DOMAIN data
    /\ CoiValidates(data.coi_data)
    /\ RequirementsValidate(ListOrEmpty(data, "critical_gaps"))
    /\ RequirementsValidate(ListOrEmpty(data, "warnings"))
    /\ RequirementsValidate(ListOrEmpty(data, "passed"))

\* raise HTTPException(status_code=500, detail=str(e))
Http500(exception) == [status_code |-> 500, detail |-> exception]

Http200(report) == [status_code |-> 200, report |-> report]

\* report = ComplianceReport(**result); total_issues
ComplianceReport(data) ==
    [overall_status |-> data.overall_status,
     coi_data |-> data.coi_data,
     critical_gaps |-> ListOrEmpty(data, "critical_gaps"),
     warnings |-> ListOrEmpty(data, "warnings"),
     passed |-> ListOrEmpty(data, "passed"),
     risk_exposure |-> data.risk_exposure,
     fix_items |-> data.fix_items,
     extraction_metadata |-> data.extraction_metadata,
     total_issues |->
        Len(ListOrEmpty(data, "critical_gaps")) + Len(ListOrEmpty(data, "warnings"))]

\* the response once the compliance stage has a result
ResponseFor(data) ==
    IF ~ReportValidates(data) THEN Http500("ValidationError")
    ELSE IF GetIsNone(data, "critical_gaps") \/ GetIsNone(data, "warnings")
    THEN Http500("TypeError")
    ELSE Http200(ComplianceReport(data))

\* is_premium = False; if user: is_premium = check_premium_access(...)
PremiumFor(d, user, document_hash) ==
    user # NoUser /\ check_premium_access(d, user, document_hash)

\* variant of WithPaywall that keeps the findings and the letter from a
\* caller without an unlock
WithPaywall_HidesFindings(resp, document_hash, is_premium) ==
    IF resp.status_code = 200
    THEN [resp EXCEPT !.report =
            [document_hash |-> document_hash, is_premium |-> is_premium]
            @@ (IF is_premium THEN @
                ELSE [@ EXCEPT !.critical_gaps = <<>>, !.warnings = <<>>,
                               !.fix_items = <<>>])]
    ELSE resp

\* report.document_hash = doc_hash; report.is_premium = is_premium
WithPaywall(resp, document_hash, is_premium) ==
    IF resp.status_code = 200
    THEN [resp EXCEPT !.report =
            [document_hash |-> document_hash, is_premium |-> is_premium] @@ @]
    ELSE resp

\* the handler's effect: what it leaves behind for one request
Handled(req, reqs, coi, res, resp, saved) ==
    /\ input' = req
    /\ state' = req.state
    /\ requirements' = reqs
    /\ coi_data' = coi
    /\ result' = res
    /\ response' = WithPaywall(resp, hash_document(req.coi_text),
                               PremiumFor(db, get_current_user(db, req, now),
                                          hash_document(req.coi_text)))
    /\ uploads' = uploads + (IF saved THEN 1 ELSE 0)
    /\ pc' = IF resp.status_code = 200 THEN "return" ELSE "raise"
    /\ UNCHANGED <<MOCK_MODE, tables, db, tasks, now, history>>

\* save_upload, then the report
SaveAndReport(req, reqs, coi, res, stored) ==
    Handled(req, reqs, coi, res, ResponseFor(res), stored)

\* if MOCK_MODE
MockPath(req, reqs, coi, stored) ==
    SaveAndReport(req, reqs, coi, JsonOf(mock_compliance_check(coi, reqs, req.state)), stored)

\* result['coi_data'] = coi_data; result['extraction_metadata'] = ...
WithExtraction(res, coi, metadata) ==
    [coi_data |-> coi, extraction_metadata |-> metadata] @@ res

\* Calculate extraction confidence metadata
LLMConfidence(req, reqs, coi, res, metadata, stored) ==
    IF IsRaised(metadata)
    THEN Handled(req, reqs, coi, res, Http500(metadata.raised), FALSE)
    ELSE SaveAndReport(req, reqs, coi, WithExtraction(res, coi, metadata), stored)

\* Step 1: Extract COI data, Step 2: Check compliance
LLMPath(req, reqs, reply, stored) ==
    IF ~IsJson(reply.extraction)
    THEN Handled(req, reqs, reply.extraction, NoResult, Http500("JSONDecodeError"), FALSE)
    ELSE IF ~IsJson(reply.compliance)
    THEN Handled(req, reqs, reply.extraction, reply.compliance,
                 Http500("JSONDecodeError"), FALSE)
    ELSE LLMConfidence(req, reqs, reply.extraction, reply.compliance,
                       calculate_extraction_confidence(reply.extraction), stored)

check_coi_compliance(req, reqs, reply, stored) ==
    IF MOCK_MODE
    THEN MockPath(req, reqs, mock_coi_extract(req.coi_text), stored)
    ELSE LLMPath(req, reqs, reply, stored)

----------------------------------------------------------------------------
(* Requests and model replies *)

\* the digits a limit pattern captures
Captured(n) == Tail(FormatDollars(n))

\* texts by what the extraction patterns find in them: a complete
\* certificate, one without the additional-insured mark, and one in which
\* no pattern matches
Documents ==
    {[each_occurrence |-> Captured(1000000), aggregate |-> Captured(2000000),
      umbrella |-> Captured(2000000), workers_comp |-> TRUE,
      additional_insured_marked |-> TRUE, additional_insured_named |-> TRUE,
      x_mark |-> TRUE, waiver_marked |-> TRUE, cg_20_10 |-> TRUE, cg_20_37 |-> FALSE],
     [each_occurrence |-> Captured(1000000), aggregate |-> Captured(2000000),
      umbrella |-> Captured(2000000), workers_comp |-> TRUE,
      additional_insured_marked |-> FALSE, additional_insured_named |-> TRUE,
      x_mark |-> FALSE, waiver_marked |-> FALSE, cg_20_10 |-> FALSE, cg_20_37 |-> FALSE],
     [each_occurrence |-> None, aggregate |-> None,
      umbrella |-> None, workers_comp |-> FALSE,
      additional_insured_marked |-> FALSE, additional_insured_named |-> FALSE,
      x_mark |-> FALSE, waiver_marked |-> FALSE, cg_20_10 |-> FALSE, cg_20_37 |-> FALSE]}

\* no project type, a preset's key, and a key of no preset
ProjectTypes == {NoProjectType, "commercial_construction", "aerospace"}

\* no custom requirements, or a bundle that requires less than the presets
CustomInputs ==
    {Null,
     [gl_per_occurrence |-> 500000, additional_insured_required |-> FALSE,
      waiver_of_subrogation_required |-> FALSE, workers_comp_required |-> FALSE]}

\* every combination, and an unknown project type next to an empty bundle
Requests ==
    [coi_text : Documents, project_type : ProjectTypes,
     custom_requirements : CustomInputs, state : {NoState, "AL"}]
    \cup {[coi_text |-> d, project_type |-> "aerospace",
           custom_requirements |-> EmptyDict, state |-> NoState] : d \in Documents}

AllHigh == [f \in {critical_fields[i] : i \in 1..Len(critical_fields)} |-> [level |-> "high"]]

CompleteFacts ==
    [gl_limit_per_occurrence |-> FormatDollars(1000000),
     gl_limit_aggregate |-> FormatDollars(2000000),
     workers_comp |-> TRUE, umbrella_limit |-> FormatDollars(2000000),
     additional_insured_checked |-> TRUE, waiver_of_subrogation_checked |-> TRUE,
     cg_20_10_endorsement |-> TRUE, cg_20_37_endorsement |-> FALSE]

UnendorsedFacts ==
    [CompleteFacts EXCEPT !.additional_insured_checked = FALSE, !.cg_20_10_endorsement = FALSE]

LLMFinding(name, status) ==
    [name |-> name, status |-> status, actual_value |-> <<"s", "e", "e", "n">>]

\* the head of a compliance reply
Verdict(overall_status) ==
    [overall_status |-> overall_status,
     risk_exposure |-> <<"Minimal risk exposure">>,
     fix_items |-> <<>>]

\* compliance replies: three lists, lists with a critical gap, no list at
\* all, a null critical_gaps, a null passed, no risk_exposure
ComplianceReplies ==
    {Verdict("compliant") @@
        [critical_gaps |-> JsonList(<<>>), warnings |-> JsonList(<<>>),
         passed |-> JsonList(<<LLMFinding(<<"GL", "Per", "Occurrence", "Limit">>, "pass"),
                               LLMFinding(<<"GL", "Aggregate", "Limit">>, "pass")>>)],
     Verdict("non-compliant") @@
        [critical_gaps |->
            JsonList(<<LLMFinding(<<"Additional", "Insured", "Status">>, "fail")>>),
         warnings |-> JsonList(<<>>), passed |-> JsonList(<<>>)],
     Verdict("compliant"),
     Verdict("compliant") @@
        [critical_gaps |-> Null, warnings |-> JsonList(<<>>), passed |-> JsonList(<<>>)],
     Verdict("compliant") @@
        [critical_gaps |-> JsonList(<<>>), warnings |-> JsonList(<<>>), passed |-> Null],
     [overall_status |-> "compliant", fix_items |-> <<>>,
      critical_gaps |-> JsonList(<<>>), warnings |-> JsonList(<<>>),
      passed |-> JsonList(<<>>)]}

FirstReply == Verdict("compliant")

\* what the model answers to the two prompts of one request
LLMReplies ==
    {[extraction |-> WithConfidence(CompleteFacts, AllHigh), compliance |-> c] :
        c \in ComplianceReplies \cup {NotJson}}
    \cup {[extraction |-> e, compliance |-> FirstReply] :
            e \in {WithConfidence(UnendorsedFacts, AllHigh),
                   WithConfidence(CompleteFacts, Null), CompleteFacts, NotJson}}

\* no model is called in mock mode
RepliesRead ==
    IF MOCK_MODE THEN {[extraction |-> NotJson, compliance |-> NotJson]} ELSE LLMReplies

InitApi ==
    /\ pc = "idle"
    /\ MOCK_MODE \in BOOLEAN
    /\ input = NoInput
    /\ coi_data = CompleteFacts
    /\ requirements = NoRequirements
    /\ state = NoState
    /\ result = NoResult
    /\ response = NoResponse
    /\ uploads = 0
    /\ AtStartup

CheckCoiCompliance ==
    /\ uploads < MaxUploads
    /\ \E req \in Requests, reply \in RepliesRead, stored \in BOOLEAN :
        check_coi_compliance(req, ChooseRequirements(req.project_type, req.custom_requirements),
                             reply, stored)

NextApi == CheckCoiCompliance

SpecApi == InitApi /\ [][NextApi]_vars

----------------------------------------------------------------------------
(* Properties of check_coi_compliance *)

\* the two extractions carry the same confidence annotations
SameAnnotations(c1, c2) ==
    /\ "confidence" \in DOMAIN c1 <=> "confidence" \in DOMAIN c2
    /\ "confidence" \in DOMAIN c1 => c1.confidence = c2.confidence

\* C5: the confidence metadata of a report (overall_confidence,
\* needs_human_review, low_confidence_fields, review_reasons) is a function
\* of the confidence annotations alone: of two requests answered with a
\* report, on the mock or on the LLM path, whose extracted data carry the
\* same annotations, the second report has the confidence metadata of the
\* first, whatever the extracted facts and the findings are.
C5_MetadataFromAnnotationsAlone ==
    [][(/\ response.status_code = 200
        /\ response'.status_code = 200
        /\ SameAnnotations(coi_data, coi_data'))
       => response'.report.extraction_metadata = response.report.extraction_metadata]_vars

\* C6: a request whose project_type is not a key of
\* PROJECT_TYPE_REQUIREMENTS fails with a client error and produces no
\* report; no other requirement bundle is evaluated in its place.
C6_UnknownProjectTypeRejected ==
    (/\ pc # "idle"
     /\ input.project_type # NoProjectType
     /\ input.project_type \notin DOMAIN PROJECT_TYPE_REQUIREMENTS)
    => (response.status_code >= 400 /\ response.status_code <= 499)

\* at least one finding of the report for every rule the bundle applies
CoversApplicableRules(report, req) ==
    /\ NumNamed(report, {GLOccName}) >= 1
    /\ NumNamed(report, {GLAggName}) >= 1
    /\ Get(req, "additional_insured_required", TRUE)
           => NumNamed(report, {AIStatusName, AIEndorsementName}) >= 1
    /\ Get(req, "waiver_of_subrogation_required", TRUE) => NumNamed(report, {WaiverName}) >= 1
    /\ Get(req, "workers_comp_required", TRUE) => NumNamed(report, {WorkersCompName}) >= 1
    /\ Get(req, "umbrella_required", FALSE) => NumNamed(report, {UmbrellaName}) >= 1

\* C7: a returned report's critical_gaps, warnings and passed together
\* cover every applicable rule of the profile, and a compliance result in
\* which one of the three lists is missing or null is answered with an
\* error, never with a report holding empty lists in their place.
C7_NoPartialReport ==
    response.status_code = 200 =>
        /\ ~FieldIsNone(result, "critical_gaps")
        /\ ~FieldIsNone(result, "warnings")
        /\ ~FieldIsNone(result, "passed")
        /\ CoversApplicableRules(response.report, requirements)

----------------------------------------------------------------------------
(* Properties of the jurisdiction argument, the facts and the letter *)

\* C11: evaluating with a jurisdiction code of no table ('ZZ') raises
\* nothing and returns exactly the result (findings, overall_status,
\* exposure, letter, metadata) of evaluating the same certificate and
\* profile with the jurisdiction omitted.
C11_UnknownStateAsNoState ==
    (pc = "return" /\ state = "ZZ")
    => result = mock_compliance_check(coi_data, requirements, NoState)

\* a report with a critical gap returned for the code 'ZZ'
C11_Witness ==
    /\ pc = "return"
    /\ state = "ZZ"
    /\ result.overall_status = "non-compliant"
    /\ Len(result.fix_request_letter.items) >= 1

\* the boolean coverage facts of a certificate
CoverageFacts ==
    {"workers_comp", "additional_insured_checked", "waiver_of_subrogation_checked",
     "cg_20_10_endorsement", "cg_20_37_endorsement"}

\* compliant < needs-review < non-compliant
StatusRank(overall_status) ==
    IF overall_status = "compliant" THEN 0
    ELSE IF overall_status = "needs-review" THEN 1
    ELSE 2

\* overall_status and total_gap of a list of emissions
StatusOfEmissions(emissions) ==
    OverallStatus(ListOf(emissions, "critical_gaps"), ListOf(emissions, "warnings"))

ExposureOfEmissions(emissions) == TotalGap(ListOf(emissions, "critical_gaps"))

\* the certificate with one coverage fact set to false
Without(coi, fact) == [coi EXCEPT ![fact] = FALSE]

\* the findings em are no better than the report res: the status is at
\* least as severe and the exposure at least as large
NoBetterThan(em, res) ==
    /\ StatusRank(StatusOfEmissions(em)) >= StatusRank(res.overall_status)
    /\ ExposureOfEmissions(em) >= TotalGap(res.critical_gaps)

\* C13: setting exactly one boolean coverage fact (workers_comp,
\* additional_insured_checked, waiver_of_subrogation_checked,
\* cg_20_10_endorsement, cg_20_37_endorsement) from true to false never
\* improves overall_status in the order compliant < needs-review <
\* non-compliant and never lowers the dollar exposure, for every
\* certificate, profile and state.
C13_FactMonotonicity ==
    pc = "return" =>
        \A fact \in CoverageFacts :
            coi_data[fact] =>
                NoBetterThan(Emissions(Without(coi_data, fact), requirements, state),
                             result)

\* a compliant report for a certificate with the waiver box checked, which
\* is non-compliant with $500,000 exposure once the box is unchecked
C13_Witness ==
    /\ pc = "return"
    /\ coi_data.waiver_of_subrogation_checked
    /\ result.overall_status = "compliant"
    /\ StatusOfEmissions(Emissions(Without(coi_data, "waiver_of_subrogation_checked"),
                                   requirements, state)) = "non-compliant"
    /\ ExposureOfEmissions(Emissions(Without(coi_data, "waiver_of_subrogation_checked"),
                                     requirements, state)) = 500000

----------------------------------------------------------------------------
(* parse_limit_to_number on the raw value of a limit field *)

\* longest text drawn over LimitAlphabet
MaxLimitLen == 4

\* characters of the limit texts: the stripped symbols, a decimal point, a
\* blank, both suffixes in either case, two digits and a letter that is
\* neither a suffix nor a digit
LimitAlphabet == {"$", ",", ".", " ", "m", "K", "0", "1", "x"}

\* a JSON string, number or boolean as json.loads delivers it (null is Null)
JsonString(chars) == [text |-> chars]
JsonNumber(n) == [number |-> n]
JsonBoolean(b) == [boolean |-> b]

\* isinstance(v, str)
IsStr(v) == "text" \in DOMAIN v

\* not limit_str
Falsy(v) ==
    \/ "null" \in DOMAIN v
    \/ IsStr(v) /\ v.text = <<>>
    \/ "number" \in DOMAIN v /\ v.number = 0
    \/ "boolean" \in DOMAIN v /\ ~v.boolean

\* the function returned n
Returned(n) == [returned |-> n]

\* parse_limit_to_number applied to any value: `if not limit_str: return 0`
\* comes first, then limit_str.replace, which only a str has, outside any try
parse_limit_of(v) ==
    IF Falsy(v) THEN Returned(0)
    ELSE IF IsStr(v) THEN Returned(parse_limit_to_number(v.text))
    ELSE Raised("AttributeError")

\* the limit texts of the examples
ExampleLimits ==
    { <<"$","1",",","0","0","0",",","0","0","0">>,
      <<"$","2","M">>,
      <<"g","a","r","b","a","g","e">>,
      <<"$","5","0","0","K">>,
      <<"$","4",".","1","M">>,
      <<"1","M","5">>,
      <<"2","5","0","0","0","0","0">> }

LimitTexts == UNION {[1..n -> LimitAlphabet] : n \in 0..MaxLimitLen} \cup ExampleLimits

\* the values a limit field can hold after json.loads
RawLimits ==
    {JsonString(t) : t \in LimitTexts}
    \cup {Null, JsonNumber(0), JsonNumber(1000000), JsonBoolean(FALSE), JsonBoolean(TRUE)}

InitParse ==
    /\ pc = "call"
    /\ input \in RawLimits
    /\ coi_data = EmptyDict
    /\ requirements = NoRequirements
    /\ state = NoState
    /\ result = NoResult
    /\ MOCK_MODE = FALSE
    /\ response = NoResponse
    /\ uploads = 0
    /\ AtStartup

ParseLimitToNumber ==
    /\ pc = "call"
    /\ result' = parse_limit_of(input)
    /\ pc' = IF IsRaised(parse_limit_of(input)) THEN "raise" ELSE "return"
    /\ UNCHANGED <<coi_data, requirements, state, input, MOCK_MODE, response, uploads,
                   tables, db, tasks, now, history>>

NextParse == ParseLimitToNumber

SpecParse == InitParse /\ [][NextParse]_vars

----------------------------------------------------------------------------
(* Properties of parse_limit_to_number *)

\* the text with every '$' and ',' removed, surrounding blanks aside
Remainder(s) == Strip(RemoveChar(RemoveChar(s, "$"), ","))

\* the last character is K or M in either case
EndsInSuffix(t) == Len(t) > 0 /\ t[Len(t)] \in {"k", "K", "m", "M"}

SuffixMultiplier(t) == IF t[Len(t)] \in {"k", "K"} THEN 1000 ELSE 1000000

\* sign * ip.fp * mult in exact decimal arithmetic, as an integer
ExactScaled(sign, ip, fp, mult) ==
    IF FloatWellFormed(ip, fp)
    THEN [ok |-> TRUE,
          value |-> sign * ((DigitsValue(ip \o fp) * mult) \div Pow10(Len(fp)))]
    ELSE [ok |-> FALSE, value |-> 0]

ExactSplit(sign, body, dot, mult) ==
    ExactScaled(sign, SubSeq(body, 1, dot - 1), SubSeq(body, dot + 1, Len(body)), mult)

\* the number written by t times mult, [ok |-> FALSE] when t is not a number
NumberTimes(t, mult) ==
    ExactSplit(SignOf(Strip(t)), Unsigned(Strip(t)), DotIndex(Unsigned(Strip(t))), mult)

\* the reference parse of the remainder
ReferenceOfRemainder(t) ==
    IF EndsInSuffix(t) /\ NumberTimes(SubSeq(t, 1, Len(t) - 1), SuffixMultiplier(t)).ok
    THEN NumberTimes(SubSeq(t, 1, Len(t) - 1), SuffixMultiplier(t)).value
    ELSE ValueOrZero(PyInt(t))

ReferenceParse(s) == ReferenceOfRemainder(Remainder(s))

\* C14: for every limit string s, parse_limit_to_number(s) equals the
\* reference parse: remove every '$' and ','; if the remainder ends in K or
\* M (either case) and the part before it is a number, return that number
\* times 1,000 or 1,000,000; else if the remainder is an integer literal
\* return it; else return 0.  A K or M that is not the last character never
\* acts as a multiplier.
C14_EqualsReferenceParse ==
    (pc # "call" /\ IsStr(input)) => result = Returned(ReferenceParse(input.text))

\* C15: parse_limit_to_number never raises: for every raw field value (null,
\* empty string, any string, a number or a boolean) it returns an integer.
C15_NeverRaises ==
    pc # "call" => (pc = "return" /\ "returned" \in DOMAIN result)

----------------------------------------------------------------------------
(* The risk scores of the domain analyzers and of document extraction *)

\* the searched keywords that occur inside a phrase other than the phrase
\* itself (`keyword in text_lower` is a substring test)
Substrings ==
    [p \in {"abatement", "landlord may terminate", "tenant may terminate",
            "all inventions", "cancellation fee", "annual fee", "umbrella: $2m"} |->
        IF p = "abatement" THEN {"abate"}
        ELSE IF p \in {"landlord may terminate", "tenant may terminate"} THEN {"terminate"}
        ELSE IF p = "all inventions" THEN {"inventions"}
        ELSE IF p = "cancellation fee" THEN {"cancel"}
        ELSE IF p = "annual fee" THEN {"annual"}
        ELSE {"umbrella"}]

\* keyword in text_lower, for a text made of the phrases of `text`
Has(text, keyword) ==
    \E p \in text : keyword = p \/ (p \in DOMAIN Substrings /\ keyword \in Substrings[p])

\* one check of an analyzer: the red flags it appends and what it adds to risk_score
NoStep == [flags |-> <<>>, points |-> 0]

\* red_flags.append({...}); risk_score += points
Flag(cond, name, severity, points) ==
    IF cond THEN [flags |-> <<[name |-> name, severity |-> severity]>>, points |-> points]
    ELSE NoStep

\* risk_score += points with no red flag
Points(cond, points) == IF cond THEN [flags |-> <<>>, points |-> points] ELSE NoStep

RECURSIVE FlagsOf(_)
FlagsOf(steps) == IF steps = <<>> THEN <<>> ELSE Head(steps).flags \o FlagsOf(Tail(steps))

RECURSIVE PointsOf(_)
PointsOf(steps) == IF steps = <<>> THEN 0 ELSE Head(steps).points + PointsOf(Tail(steps))

\* variant of Capped without the cap
Capped_Uncapped(risk_score) == risk_score

\* min(100, risk_score)
Capped(risk_score) == IF risk_score > 100 THEN 100 ELSE risk_score

\* the red flags and the risk score an analyzer returns
Analysis(base, steps) ==
    [red_flags |-> FlagsOf(steps), risk_score |-> Capped(base + PointsOf(steps))]

\* mock_lease_analysis: risk_score = 50
LeaseBase == 50

LeaseSteps(t) ==
    << Flag(Has(t, "indemnify") /\ Has(t, "hold harmless")
              /\ (~Has(t, "negligence") \/ ~Has(t, "except")),
            "Blanket Indemnification", "critical", 20),
       Flag(Has(t, "additional insured"), "Additional Insured Requirement", "warning", 10),
       Flag(Has(t, "waiver of subrogation") \/ Has(t, "waive subrogation"),
            "Waiver of Subrogation", "warning", 10),
       Flag(Has(t, "primary and non-contributory"),
            "Primary and Non-Contributory", "warning", 15),
       Flag(Has(t, "not be liable") \/ Has(t, "not responsible"),
            "Landlord Not Liable", "critical", 15),
       Points(~Has(t, "abatement") /\ ~Has(t, "abate"), 10),
       Points(~Has(t, "terminate")
                \/ (Has(t, "landlord may terminate") /\ ~Has(t, "tenant may terminate")), 10) >>

mock_lease_analysis(lease_text) == Analysis(LeaseBase, LeaseSteps(lease_text))

\* mock_gym_analysis: risk_score = 30
GymBase == 30

GymSteps(t) ==
    << Flag(Has(t, "in person") \/ (Has(t, "visit") /\ Has(t, "cancel")),
            "In-Person Cancellation Only", "critical", 25),
       Flag(Has(t, "certified mail"), "Certified Mail Required", "warning", 10),
       Flag(Has(t, "automatically renew") \/ Has(t, "auto-renew"),
            "Automatic Renewal Trap", "warning", 15),
       Flag(Has(t, "annual fee") \/ Has(t, "enhancement fee"),
            "Hidden Annual Fee", "warning", 10),
       Flag(Has(t, "arbitration"), "Forced Arbitration", "warning", 10),
       Flag(Has(t, "early termination") \/ Has(t, "buyout"),
            "Early Termination Fee", "warning", 15),
       Flag(~Has(t, "freeze") /\ ~Has(t, "pause"),
            "No Freeze Option Mentioned", "info", 5) >>

mock_gym_analysis(contract_text) == Analysis(GymBase, GymSteps(contract_text))

\* data/states.py NON_COMPETE_STATES: status and salary threshold
NON_COMPETE_STATES ==
    [s \in {"CA", "MN", "ND", "OK", "CO", "IL", "WA", "ME", "MA", "OR"} |->
        IF s \in {"CA", "MN", "ND", "OK"} THEN [status |-> "BANNED", threshold |-> 0]
        ELSE IF s = "CO" THEN [status |-> "THRESHOLD", threshold |-> 127091]
        ELSE IF s = "IL" THEN [status |-> "THRESHOLD", threshold |-> 75000]
        ELSE IF s = "WA" THEN [status |-> "THRESHOLD", threshold |-> 123394]
        ELSE [status |-> "RESTRICTED", threshold |-> 0]]

\* non_compete_enforceable of a state of the table; salary 0 stands for no salary
EnforceableIn(state_info, salary) ==
    IF state_info.status = "BANNED" THEN "unlikely"
    ELSE IF state_info.status = "THRESHOLD"
    THEN IF salary # 0 /\ salary < state_info.threshold THEN "unlikely" ELSE "likely"
    ELSE "unknown"

NonCompeteEnforceable(su, salary) ==
    IF HasRules(NON_COMPETE_STATES, su) THEN EnforceableIn(NON_COMPETE_STATES[su], salary)
    ELSE "unknown"

\* mock_employment_analysis: risk_score = 20
EmploymentBase == 20

EmploymentSteps(t, non_compete_enforceable) ==
    << Flag(Has(t, "non-compete") \/ Has(t, "covenant not to compete"),
            "Non-Compete Agreement",
            IF non_compete_enforceable # "unlikely" THEN "critical" ELSE "warning",
            IF non_compete_enforceable # "unlikely" THEN 20 ELSE 5),
       Flag(Has(t, "arbitration"), "Mandatory Arbitration", "warning", 15),
       Flag(Has(t, "class action") /\ Has(t, "waive"), "Class Action Waiver", "warning", 10),
       Flag((Has(t, "intellectual property") \/ Has(t, "inventions"))
              /\ (Has(t, "all inventions") \/ Has(t, "during employment")),
            "Broad IP Assignment", "warning", 10),
       Flag(Has(t, "at-will"), "At-Will Employment", "info", 0) >>

mock_employment_analysis(contract_text, st, salary) ==
    Analysis(EmploymentBase,
             EmploymentSteps(contract_text, NonCompeteEnforceable(state_upper_of(st), salary)))

\* mock_freelancer_analysis: risk_score = 25
FreelancerBase == 25

FreelancerSteps(t) ==
    << Flag(Has(t, "net 90"), "Net 90 Payment Terms", "critical", 25),
       Flag(~Has(t, "net 90") /\ Has(t, "net 60"), "Net 60 Payment Terms", "warning", 15),
       Flag(Has(t, "work for hire") \/ Has(t, "work made for hire"),
            "Work For Hire", "warning", 10),
       Points(~(Has(t, "work for hire") \/ Has(t, "work made for hire"))
                /\ (Has(t, "assigns all") \/ Has(t, "assign all rights")), 10),
       Points(~(Has(t, "kill fee") \/ Has(t, "cancellation fee")) /\ ~Has(t, "cancel"), 15),
       Flag(Has(t, "unlimited revision"), "Unlimited Revisions", "critical", 25),
       Flag(Has(t, "non-compete") \/ Has(t, "not compete"),
            "Non-Compete Clause", "critical", 20),
       Flag(Has(t, "indemnify") /\ Has(t, "hold harmless"),
            "One-Sided Indemnification", "warning", 10) >>

mock_freelancer_analysis(contract_text) == Analysis(FreelancerBase, FreelancerSteps(contract_text))

\* mock_influencer_analysis: risk_score = 25
InfluencerBase == 25

HasPerpetualRights(t) ==
    Has(t, "perpetuity") \/ Has(t, "forever") \/ Has(t, "unlimited duration")

FtcAddressed(t) == Has(t, "#ad") \/ Has(t, "disclose") \/ Has(t, "ftc")

FtcUnclear(t) == ~FtcAddressed(t) /\ (Has(t, "partner") \/ Has(t, "sponsor"))

InfluencerSteps(t) ==
    << Flag(HasPerpetualRights(t), "Perpetual Usage Rights", "critical", 25),
       Flag(~HasPerpetualRights(t) /\ (Has(t, "12 month") \/ Has(t, "one year")),
            "12-Month Usage Rights", "warning", 10),
       Flag(Has(t, "machine learning") \/ Has(t, "ai training")
              \/ Has(t, "artificial intelligence"),
            "AI Training Rights", "critical", 20),
       Flag(Has(t, "exclusiv") /\ Has(t, "including but not limited to"),
            "Vague Exclusivity", "critical", 20),
       Flag(FtcUnclear(t), "Unclear FTC Disclosure Terms", "warning", 10),
       Flag(~FtcAddressed(t) /\ ~FtcUnclear(t), "No FTC Compliance Mentioned", "warning", 10),
       Flag(Has(t, "net 90"), "Net 90 Payment", "critical", 20),
       Points(~Has(t, "net 90") /\ Has(t, "net 60"), 10),
       Flag(Has(t, "unlimited revision"), "Unlimited Revisions", "critical", 15),
       Flag((Has(t, "morality") \/ Has(t, "moral") \/ Has(t, "public disrepute"))
              /\ (~Has(t, "brand") \/ ~Has(t, "mutual")),
            "One-Sided Morality Clause", "warning", 10) >>

mock_influencer_analysis(contract_text) == Analysis(InfluencerBase, InfluencerSteps(contract_text))

\* data/states.py TIMESHARE_RESCISSION: the states with a rescission period
TIMESHARE_RESCISSION ==
    [s \in {"AK", "DC", "FL", "MD", "MI", "CA", "AZ", "CO", "NV", "AR", "OH", "KS", "IN"} |->
        [days |-> IF s \in {"AK", "DC"} THEN 15
                  ELSE IF s \in {"FL", "MD"} THEN 10
                  ELSE IF s = "MI" THEN 9
                  ELSE IF s \in {"CA", "AZ"} THEN 7
                  ELSE IF s \in {"CO", "NV", "AR"} THEN 5
                  ELSE 3]]

\* purchase_price + sum(annual_fee * 1.05 ** year for year in range(10)),
\* the sum of the powers being 12.57789..., in whole dollars
TenYearCost(purchase_price, annual_fee) == purchase_price + (annual_fee * 1257789) \div 100000

\* mock_timeshare_analysis: risk_score = 60; an amount of 0 stands for None
TimeshareBase == 60

TimeshareSteps(t, su, purchase_price, annual_fee) ==
    << Flag(Has(t, "perpetuity") \/ Has(t, "heirs") \/ Has(t, "forever")
              \/ Has(t, "successors"),
            "Perpetuity Clause", "critical", 20),
       Flag(Has(t, "deeded") \/ Has(t, "fee simple"), "Deeded Ownership", "warning", 10),
       Flag(Has(t, "maintenance") /\ (Has(t, "increase") \/ Has(t, "adjust")),
            "Uncapped Maintenance Fees", "critical", 15),
       Flag(Has(t, "special assessment"), "Special Assessment Authority", "critical", 10),
       Flag(HasRules(TIMESHARE_RESCISSION, su), "Rescission Period", "info", 0),
       Flag(purchase_price # 0 /\ annual_fee # 0
              /\ TenYearCost(purchase_price, annual_fee) > 50000,
            "10-Year Cost", "critical", 0),
       Flag(Has(t, "entire agreement") \/ Has(t, "no representations"),
            "Integration Clause (License to Lie)", "warning", 10) >>

mock_timeshare_analysis(contract_text, st, purchase_price, annual_fee) ==
    Analysis(TimeshareBase,
             TimeshareSteps(contract_text, state_upper_of(st), purchase_price, annual_fee))

\* mock_insurance_policy_analysis: risk_score = 30
InsurancePolicyBase == 30

InsurancePolicySteps(t) ==
    << Flag(Has(t, "actual cash value"), "Actual Cash Value Coverage", "warning", 15),
       Flag(Has(t, "concurrent") /\ Has(t, "sequence"),
            "Anti-Concurrent Causation Clause", "critical", 20),
       Flag(Has(t, "%") /\ (Has(t, "hurricane") \/ Has(t, "wind") \/ Has(t, "hail")),
            "Percentage Deductible", "critical", 20),
       Flag(~(Has(t, "open perils") \/ Has(t, "all risk"))
              /\ (Has(t, "named perils") \/ Has(t, "specified perils")),
            "Named Perils Coverage", "warning", 10),
       Flag(Has(t, "arbitration"), "Mandatory Arbitration", "warning", 10) >>

mock_insurance_policy_analysis(policy_text) ==
    Analysis(InsurancePolicyBase, InsurancePolicySteps(policy_text))

\* mock_extract, coverage_patterns: the coverage entries appended for the
\* phrases of a text, one per pattern that matches
CoveragesOf(t) ==
    {cov \in {"General Liability", "Building Coverage", "Business Income", "Umbrella",
              "General Coverage"} :
        \/ cov = "General Liability" /\ "gl: $1m" \in t
        \/ cov = "Building Coverage" /\ "building coverage $500,000" \in t
        \/ cov = "Business Income" /\ "business income $100,000" \in t
        \/ cov = "Umbrella" /\ "umbrella: $2m" \in t
        \/ cov = "General Coverage" /\ "building coverage $500,000" \in t}

\* mock_extract, exclusions
ExclusionsOf(t) ==
    {e \in {"Fermentation explosions", "Flood coverage excluded", "E-bike battery fires",
            "Carbon fiber frame defects over $10k"} :
        \/ e = "Fermentation explosions" /\ Has(t, "ferment")
        \/ e = "Flood coverage excluded"
             /\ Has(t, "flood") /\ (Has(t, "no") \/ Has(t, "excluded") \/ Has(t, "separate"))
        \/ e = "E-bike battery fires" /\ (Has(t, "e-bike") \/ Has(t, "ebike"))
        \/ e = "Carbon fiber frame defects over $10k" /\ Has(t, "carbon fiber")}

\* mock_extract: risk_score = 70
ExtractBase == 70

ExtractScore(t) ==
    ExtractBase + (IF Cardinality(CoveragesOf(t)) >= 3 THEN 10 ELSE 0)
                + (IF Has(t, "umbrella") THEN 10 ELSE 0)
                - (IF Cardinality(ExclusionsOf(t)) > 2 THEN 15 ELSE 0)

\* min(100, max(1, risk_score))
Clamped(risk_score) ==
    IF risk_score > 100 THEN 100 ELSE IF risk_score < 1 THEN 1 ELSE risk_score

mock_extract(text) ==
    [coverages |-> CoveragesOf(text), exclusions |-> ExclusionsOf(text),
     risk_score |-> Clamped(ExtractScore(text))]

\* the phrases the texts of each function are made of
Phrases ==
    [lease |-> {"indemnify", "hold harmless", "negligence", "except", "additional insured",
                "waiver of subrogation", "primary and non-contributory", "not be liable",
                "abatement", "landlord may terminate", "tenant may terminate"},
     gym |-> {"in person", "visit", "cancel", "certified mail", "auto-renew", "annual fee",
              "arbitration", "early termination", "freeze"},
     employment |-> {"non-compete", "arbitration", "class action", "waive",
                     "intellectual property", "all inventions", "at-will"},
     freelancer |-> {"net 90", "net 60", "work for hire", "assigns all", "cancellation fee",
                     "unlimited revision", "non-compete", "indemnify", "hold harmless"},
     influencer |-> {"forever", "12 month", "ai training", "exclusiv",
                     "including but not limited to", "disclose", "sponsor", "net 90",
                     "net 60", "unlimited revision", "moral", "brand", "mutual"},
     timeshare |-> {"heirs", "deeded", "maintenance", "increase", "special assessment",
                    "entire agreement"},
     insurance_policy |-> {"actual cash value", "concurrent", "sequence", "%", "hurricane",
                           "named perils", "open perils", "arbitration"},
     extract |-> {"gl: $1m", "building coverage $500,000", "business income $100,000",
                  "umbrella: $2m", "ferment", "flood", "excluded", "e-bike",
                  "carbon fiber"}]

Analyzers ==
    {"lease", "gym", "employment", "freelancer", "influencer", "timeshare",
     "insurance_policy"}

\* the state, salary and amount arguments a function takes
StatesOf(fn) ==
    IF fn = "employment" THEN {NoState, "CA", "CO", "MA"}
    ELSE IF fn = "timeshare" THEN {NoState, "FL", "tx"}
    ELSE {NoState}

SalariesOf(fn) == IF fn = "employment" THEN {0, 50000, 200000} ELSE {0}

PricesOf(fn) == IF fn = "timeshare" THEN {0, 20000, 40000} ELSE {0}

FeesOf(fn) == IF fn = "timeshare" THEN {0, 1000} ELSE {0}

\* a call of one of the eight functions
Call(fn, text, st, salary, purchase_price, annual_fee) ==
    [fn |-> fn, text |-> text, state |-> st, salary |-> salary,
     purchase_price |-> purchase_price, annual_fee |-> annual_fee]

Calls ==
    UNION {{Call(fn, text, st, salary, price, fee) :
                text \in SUBSET Phrases[fn], st \in StatesOf(fn),
                salary \in SalariesOf(fn), price \in PricesOf(fn), fee \in FeesOf(fn)} :
           fn \in DOMAIN Phrases}

\* the steps of an analyzer on a call
StepsOf(c) ==
    IF c.fn = "lease" THEN LeaseSteps(c.text)
    ELSE IF c.fn = "gym" THEN GymSteps(c.text)
    ELSE IF c.fn = "employment"
    THEN EmploymentSteps(c.text, NonCompeteEnforceable(state_upper_of(c.state), c.salary))
    ELSE IF c.fn = "freelancer" THEN FreelancerSteps(c.text)
    ELSE IF c.fn = "influencer" THEN InfluencerSteps(c.text)
    ELSE IF c.fn = "timeshare"
    THEN TimeshareSteps(c.text, state_upper_of(c.state), c.purchase_price, c.annual_fee)
    ELSE InsurancePolicySteps(c.text)

BaseOf(fn) ==
    IF fn = "lease" THEN LeaseBase
    ELSE IF fn = "gym" THEN GymBase
    ELSE IF fn = "employment" THEN EmploymentBase
    ELSE IF fn = "freelancer" THEN FreelancerBase
    ELSE IF fn = "influencer" THEN InfluencerBase
    ELSE IF fn = "timeshare" THEN TimeshareBase
    ELSE InsurancePolicyBase

\* what the called function returns
Analyze(c) ==
    IF c.fn = "lease" THEN mock_lease_analysis(c.text)
    ELSE IF c.fn = "gym" THEN mock_gym_analysis(c.text)
    ELSE IF c.fn = "employment" THEN mock_employment_analysis(c.text, c.state, c.salary)
    ELSE IF c.fn = "freelancer" THEN mock_freelancer_analysis(c.text)
    ELSE IF c.fn = "influencer" THEN mock_influencer_analysis(c.text)
    ELSE IF c.fn = "timeshare"
    THEN mock_timeshare_analysis(c.text, c.state, c.purchase_price, c.annual_fee)
    ELSE IF c.fn = "insurance_policy" THEN mock_insurance_policy_analysis(c.text)
    ELSE mock_extract(c.text)

InitRisk ==
    /\ pc = "call"
    /\ input \in Calls
    /\ coi_data = EmptyDict
    /\ requirements = NoRequirements
    /\ state = NoState
    /\ result = NoResult
    /\ MOCK_MODE = TRUE
    /\ response = NoResponse
    /\ uploads = 0
    /\ AtStartup

AnalyzeText ==
    /\ pc = "call"
    /\ result' = Analyze(input)
    /\ pc' = "return"
    /\ UNCHANGED <<coi_data, requirements, state, input, MOCK_MODE, response, uploads,
                   tables, db, tasks, now, history>>

NextRisk == AnalyzeText

SpecRisk == InitRisk /\ [][NextRisk]_vars

----------------------------------------------------------------------------
(* Properties of the risk scores *)

\* the call with one more phrase in its text
WithPhrase(c, p) == [c EXCEPT !.text = @ \cup {p}]

FlagSet(flags) == {flags[i] : i \in 1..Len(flags)}

\* `after` lists the red flags of `before` and exactly one more
OneMoreFlag(before, after) ==
    FlagSet(before) \subseteq FlagSet(after) /\ Len(after) = Len(before) + 1

RECURSIVE FlagWeights(_)
FlagWeights(steps) ==
    IF steps = <<>> THEN 0
    ELSE (IF Head(steps).flags # <<>> THEN Head(steps).points ELSE 0)
         + FlagWeights(Tail(steps))

\* the steps that emitted a red flag of the severity
Emitting(steps, severity) ==
    {i \in 1..Len(steps) : steps[i].flags # <<>> /\ steps[i].flags[1].severity = severity}

\* every critical red flag emitted weighs more than every warning emitted
CriticalOutweighs(steps) ==
    \A i \in Emitting(steps, "critical") : \A j \in Emitting(steps, "warning") :
        steps[i].points > steps[j].points

\* C17: in each domain analyzer the unclamped risk_score equals the domain's
\* base score plus the sum of one fixed weight per emitted red flag (nothing
\* that is not an emitted finding changes the score), and the weight of
\* every critical red flag is strictly greater than the weight of every
\* warning red flag of the domain.
C17_BasePlusFlagWeights ==
    (pc = "return" /\ input.fn \in Analyzers) =>
        /\ BaseOf(input.fn) + PointsOf(StepsOf(input))
               = BaseOf(input.fn) + FlagWeights(StepsOf(input))
        /\ CriticalOutweighs(StepsOf(input))

----------------------------------------------------------------------------
(* Properties of the fix-request letter and of the Additional Insured rule *)

NamesOf(findings) == [i \in 1..Len(findings) |-> findings[i].name]

NotPass(f) == f.status # "pass"

\* C18: the 'ITEMS REQUIRING CORRECTION' block of the letter contains
\* exactly one line per finding whose severity is critical or warning, all
\* critical findings first, then all warnings, each group in emission
\* order, and no line for any finding whose status is pass.
C18_LetterItems ==
    pc = "return" =>
        result.fix_request_letter.items
            = FixLines(NamesOf(SelectSeq(result.critical_gaps, NotPass))
                       \o NamesOf(SelectSeq(result.warnings, NotPass)))

\* the requirement lines of a profile: the General Liability amounts, and
\* each of the three other demands only when the profile requires it
ProfileLines(req) ==
    <<GeneralLiabilityLine(req)>>
    \o (IF Get(req, "additional_insured_required", TRUE) THEN <<AdditionalInsuredLine>> ELSE <<>>)
    \o (IF Get(req, "waiver_of_subrogation_required", TRUE) THEN <<WaiverLine>> ELSE <<>>)
    \o (IF Get(req, "workers_comp_required", TRUE) THEN <<WorkersCompLine>> ELSE <<>>)

\* C19: the requirements block of the letter names the requirements of the
\* profile evaluated: the GL per-occurrence and aggregate amounts are the
\* profile's, and an Additional Insured, Waiver of Subrogation or Workers
\* Compensation requirement is stated only when the profile requires it.
C19_LetterRequirements ==
    pc = "return" => result.fix_request_letter.requirements = ProfileLines(requirements)

\* the findings of a list written by the Additional Insured rule
IsAdditionalInsured(f) == Len(f.name) >= 2 /\ SubSeq(f.name, 1, 2) = <<"Additional", "Insured">>

AdditionalInsuredIn(findings) == SelectSeq(findings, IsAdditionalInsured)

\* the list holds one Additional Insured finding, of the status
OneOfStatus(findings, status) ==
    Len(AdditionalInsuredIn(findings)) = 1 /\ AdditionalInsuredIn(findings)[1].status = status

\* the certificate with other endorsement facts
WithEndorsements(coi, cg_20_10, cg_20_37) ==
    [coi EXCEPT !.cg_20_10_endorsement = cg_20_10, !.cg_20_37_endorsement = cg_20_37]

\* C20: for a profile that requires Additional Insured the compound rule
\* yields exactly one finding for every combination of the three facts:
\* pass iff additional_insured_checked and (cg_20_10_endorsement or
\* cg_20_37_endorsement); warning iff checked and neither endorsement;
\* critical iff not checked, in which case the endorsement facts do not
\* change the outcome.
C20_AdditionalInsuredCompound ==
    (pc = "return" /\ Get(requirements, "additional_insured_required", TRUE)) =>
        /\ Len(AdditionalInsuredIn(result.critical_gaps))
             + Len(AdditionalInsuredIn(result.warnings))
             + Len(AdditionalInsuredIn(result.passed)) = 1
        /\ OneOfStatus(result.passed, "pass")
             <=> (coi_data.additional_insured_checked
                  /\ (coi_data.cg_20_10_endorsement \/ coi_data.cg_20_37_endorsement))
        /\ OneOfStatus(result.warnings, "warning")
             <=> (coi_data.additional_insured_checked
                  /\ ~coi_data.cg_20_10_endorsement /\ ~coi_data.cg_20_37_endorsement)
        /\ OneOfStatus(result.critical_gaps, "fail") <=> ~coi_data.additional_insured_checked
        /\ ~coi_data.additional_insured_checked =>
             \A cg_20_10, cg_20_37 \in BOOLEAN :
                Findings(AdditionalInsuredRule(
                    WithEndorsements(coi_data, cg_20_10, cg_20_37), requirements))
                  = AdditionalInsuredIn(result.critical_gaps)

\* a certificate with the box unchecked and CG 20 10 listed: one critical
\* Additional Insured finding, none in the other lists
C20_Witness ==
    /\ pc = "return"
    /\ Get(requirements, "additional_insured_required", TRUE)
    /\ ~coi_data.additional_insured_checked
    /\ coi_data.cg_20_10_endorsement
    /\ OneOfStatus(result.critical_gaps, "fail")
    /\ AdditionalInsuredIn(result.warnings) = <<>>
    /\ AdditionalInsuredIn(result.passed) = <<>>

----------------------------------------------------------------------------
(* Properties of the three lists and of the exposure estimate *)

\* s is an initial segment of t
IsPrefix(s, t) == Len(s) <= Len(t) /\ SubSeq(t, 1, Len(s)) = s

\* every entry of the list carries the status
AllStatus(list, status) == \A i \in 1..Len(list) : list[i].status = status

\* C23: in every result list membership and the status field agree: every
\* entry of critical_gaps has status 'fail', every entry of warnings has
\* status 'warning' and every entry of passed has status 'pass'.
C23_ListsAgreeWithStatus ==
    pc = "return" =>
        /\ AllStatus(result.critical_gaps, "fail")
        /\ AllStatus(result.warnings, "warning")
        /\ AllStatus(result.passed, "pass")

\* C24: whenever overall_status is 'non-compliant', risk_exposure is a
\* positive dollar estimate and not the 'Minimal risk exposure' sentinel:
\* every critical finding that is emitted contributes a positive amount.
C24_NonCompliantHasExposure ==
    (pc = "return" /\ result.overall_status = "non-compliant")
    => /\ result.risk_exposure # <<"Minimal risk exposure">>
       /\ \A i \in 1..Len(result.critical_gaps) : GapExposure(result.critical_gaps[i]) > 0

\* the result has the critical gaps and the exposure of the evaluation
\* without a state, whose warnings and passed entries it keeps in front
KeepsStatelessFindings(res, stateless) ==
    /\ res.critical_gaps = ListOf(stateless, "critical_gaps")
    /\ res.risk_exposure = RiskExposure(TotalGap(ListOf(stateless, "critical_gaps")))
    /\ IsPrefix(ListOf(stateless, "warnings"), res.warnings)
    /\ IsPrefix(ListOf(stateless, "passed"), res.passed)

\* C25: the state argument never changes the critical findings: the
\* critical_gaps list, and with it the exposure estimate, is the one the
\* same certificate and profile get with no state, and every finding of
\* the no-state evaluation is still in its list; the state-specific rules
\* only append to warnings or passed.
C25_StateKeepsCriticalFindings ==
    pc = "return" =>
        KeepsStatelessFindings(result, Emissions(coi_data, requirements, NoState))

\* a Texas evaluation of a certificate without workers compensation: the
\* state rule has added a warning next to the critical gaps
C25_Witness ==
    /\ pc = "return"
    /\ state_upper_of(state) = "TX"
    /\ ~coi_data.workers_comp
    /\ Len(result.critical_gaps) >= 1
    /\ Len(result.warnings)
          > Len(ListOf(Emissions(coi_data, requirements, NoState), "warnings"))

----------------------------------------------------------------------------
(* Compliance checks in flight at the same time *)

\* requests the process handles at the same time
MaxTasks == 2

\* what the name `requirements` of one request is bound to: an entry of
\* PROJECT_TYPE_REQUIREMENTS itself (no copy is made) or the request's own
\* custom_requirements
TableEntry(project_type) == [table_key |-> project_type]
OwnDict(custom_requirements) == [own |-> custom_requirements]
IsTableEntry(ref) == "table_key" \in DOMAIN ref
Deref(tbl, ref) ==
    IF IsTableEntry(ref) THEN tbl.PROJECT_TYPE_REQUIREMENTS[ref.table_key] ELSE ref.own

\* Get requirements from preset or custom: the binding
ChooseReference(tbl, project_type, custom_requirements) ==
    IF project_type # NoProjectType /\ project_type # ""
       /\ project_type \in DOMAIN tbl.PROJECT_TYPE_REQUIREMENTS
    THEN TableEntry(project_type)
    ELSE IF TruthyDict(custom_requirements) THEN OwnDict(custom_requirements)
    ELSE TableEntry("commercial_construction")

\* one certificate, with and without a preset, a custom bundle and a state
ConcurrentRequests ==
    {r \in Requests :
        /\ r.coi_text.additional_insured_named /\ ~r.coi_text.additional_insured_marked
        /\ r.project_type \in {NoProjectType, "commercial_construction"}
        /\ r.custom_requirements # EmptyDict}

NoReference == OwnDict(Null)

\* a handler that has not received its request
IdleTask ==
    [pc |-> "idle", request |-> NoInput, requirements |-> NoReference, result |-> NoResult]

InitTables ==
    /\ pc = "idle"
    /\ MOCK_MODE = TRUE
    /\ input = NoInput
    /\ coi_data = CompleteFacts
    /\ requirements = NoRequirements
    /\ state = NoState
    /\ result = NoResult
    /\ response = NoResponse
    /\ uploads = 0
    /\ tables = StartupTables
    /\ db = EmptyDb
    /\ tasks = [t \in 1..MaxTasks |-> IdleTask]
    /\ now = 0
    /\ history = NoHistory

\* variant of BindRequirements that writes the custom requirements of the
\* request into the chosen bundle
BindRequirements_MergesCustom(t) ==
    /\ tasks[t].pc = "idle"
    /\ \E req \in ConcurrentRequests :
        /\ tasks' = [tasks EXCEPT ![t] =
              [pc |-> "bound", request |-> req,
               requirements |->
                  ChooseReference(tables, req.project_type, req.custom_requirements),
               result |-> NoResult]]
        /\ tables' =
              IF IsTableEntry(ChooseReference(tables, req.project_type,
                                              req.custom_requirements))
                 /\ TruthyDict(req.custom_requirements)
              THEN [tables EXCEPT !.PROJECT_TYPE_REQUIREMENTS[req.project_type] =
                        req.custom_requirements @@ @]
              ELSE tables
    /\ UNCHANGED <<pc, coi_data, requirements, state, result, input, MOCK_MODE, response,
                   uploads, db, now, history>>

\* the handler up to the choice of the requirements
BindRequirements(t) ==
    /\ tasks[t].pc = "idle"
    /\ \E req \in ConcurrentRequests :
        tasks' = [tasks EXCEPT ![t] =
            [pc |-> "bound", request |-> req,
             requirements |->
                ChooseReference(tables, req.project_type, req.custom_requirements),
             result |-> NoResult]]
    /\ UNCHANGED <<pc, coi_data, requirements, state, result, input, MOCK_MODE, response,
                   uploads, tables, db, now, history>>

\* coi_data = mock_coi_extract(...); result = mock_compliance_check(...):
\* the evaluation reads the bundle its name is bound to
Evaluate(t) ==
    /\ tasks[t].pc = "bound"
    /\ tasks' = [tasks EXCEPT ![t].pc = "evaluated",
                              ![t].result =
                                  mock_compliance_check(
                                      mock_coi_extract(tasks[t].request.coi_text),
                                      Deref(tables, tasks[t].requirements),
                                      tasks[t].request.state)]
    /\ UNCHANGED <<pc, coi_data, requirements, state, result, input, MOCK_MODE, response,
                   uploads, tables, db, now, history>>

\* return report
Respond(t) ==
    /\ tasks[t].pc = "evaluated"
    /\ tasks' = [tasks EXCEPT ![t] = IdleTask]
    /\ UNCHANGED <<pc, coi_data, requirements, state, result, input, MOCK_MODE, response,
                   uploads, tables, db, now, history>>

NextTables == \E t \in 1..MaxTasks : BindRequirements(t) \/ Evaluate(t) \/ Respond(t)

SpecTables == InitTables /\ [][NextTables]_vars

\* C21: no request changes the static tables: in every interleaving of
\* compliance checks, with preset or custom requirements and any state,
\* PROJECT_TYPE_REQUIREMENTS and the STATE_* tables hold their start-up
\* contents, and the result of every check is the evaluation of its own
\* certificate, bundle and state against those contents, whatever the
\* other checks in flight are.
C21_TablesNeverChange ==
    /\ tables = StartupTables
    /\ \A t \in 1..MaxTasks :
        tasks[t].pc = "evaluated" =>
            tasks[t].result =
                mock_compliance_check(
                    mock_coi_extract(tasks[t].request.coi_text),
                    ChooseRequirements(tasks[t].request.project_type,
                                       tasks[t].request.custom_requirements),
                    tasks[t].request.state)

\* two checks evaluated at the same time, one bound to the preset while the
\* other carries custom requirements next to the same project type
C21_Witness ==
    /\ tasks[1].pc = "evaluated"
    /\ tasks[2].pc = "evaluated"
    /\ IsTableEntry(tasks[1].requirements)
    /\ TruthyDict(tasks[1].request.custom_requirements)
    /\ tasks[2].requirements = tasks[1].requirements
    /\ tasks[2].request.state # NoState

----------------------------------------------------------------------------
(* check_coi_compliance for callers with and without an unlock *)

\* the first two texts of Documents: a complete certificate and one without
\* the additional-insured mark
PaywallDocuments == {d \in Documents : d.workers_comp}

\* a database after two signups, a login and one purchase: user 1 holds an
\* expired session (token 1) and a live one (token 2) and has unlocked the
\* complete certificate, user 2 holds a live session (token 3) and no unlock
PaywallDb ==
    [credits |-> <<0, 0>>,
     sessions |-> {[token |-> 1, user_id |-> 1, expires_at |-> SessionDays],
                   [token |-> 2, user_id |-> 1, expires_at |-> SessionDays + 5],
                   [token |-> 3, user_id |-> 2, expires_at |-> SessionDays + 31]},
     unlocks |-> <<Unlock(1, hash_document(CHOOSE d \in PaywallDocuments : d.cg_20_10))>>]

\* the day after token 1 expired
PaywallNow == SessionDays + 1

\* the Authorization header and the auth_token cookie a request carries: no
\* credentials, either session as a cookie or a header, a header next to
\* the cookie of another user, and an empty bearer token next to a cookie
Credentials ==
    {[authorization |-> NoHeader, auth_token |-> NoToken],
     [authorization |-> NoHeader, auth_token |-> 1],
     [authorization |-> NoHeader, auth_token |-> 2],
     [authorization |-> NoHeader, auth_token |-> 3],
     [authorization |-> Bearer(2), auth_token |-> NoToken],
     [authorization |-> Bearer(3), auth_token |-> 2],
     [authorization |-> Bearer(NoToken), auth_token |-> 2]}

PaywallRequests ==
    {[coi_text |-> d, project_type |-> "commercial_construction",
      custom_requirements |-> Null, state |-> st] @@ c :
        d \in PaywallDocuments, st \in {NoState, "AL"}, c \in Credentials}

InitPaywall ==
    /\ pc = "idle"
    /\ MOCK_MODE \in BOOLEAN
    /\ input = NoInput
    /\ coi_data = CompleteFacts
    /\ requirements = NoRequirements
    /\ state = NoState
    /\ result = NoResult
    /\ response = NoResponse
    /\ uploads = 0
    /\ tables = StartupTables
    /\ db = PaywallDb
    /\ tasks = <<>>
    /\ now = PaywallNow
    /\ history = [issued |-> {1, 2, 3}, logged_out |-> {}, added |-> 1]

CheckCoiComplianceAs ==
    /\ uploads < MaxUploads
    /\ \E req \in PaywallRequests, reply \in RepliesRead, stored \in BOOLEAN :
        check_coi_compliance(req, ChooseRequirements(req.project_type, req.custom_requirements),
                             reply, stored)

NextPaywall == CheckCoiComplianceAs

SpecPaywall == InitPaywall /\ [][NextPaywall]_vars

\* the report without the flag
Ungated(report) == [f \in DOMAIN report \ {"is_premium"} |-> report[f]]

\* the user a request speaks for: the owner of the unexpired session whose
\* token is presented, the bearer token before the cookie
Presented(request) ==
    IF request.authorization.scheme = "Bearer" THEN request.authorization.token
    ELSE request.auth_token

Authenticated(request) ==
    {s.user_id : s \in {s \in db.sessions : s.token = Presented(request) /\ s.expires_at > now}}

\* C22: paywall gating does not influence the analysis: two requests with
\* the same text, profile and state (and, on the LLM path, the same model
\* replies) get the same findings, overall_status, risk_exposure and letter
\* whoever the callers are; only is_premium differs, and it is true iff the
\* caller is authenticated and has a PremiumUnlock for the SHA-256 hash of
\* that text.
C22_PaywallLeavesAnalysis ==
    /\ [][(/\ response.status_code = 200
           /\ response'.status_code = 200
           /\ input'.coi_text = input.coi_text
           /\ input'.state = input.state
           /\ requirements' = requirements
           /\ coi_data' = coi_data
           /\ result' = result)
          => Ungated(response'.report) = Ungated(response.report)]_vars
    /\ [](response.status_code = 200 =>
            (response.report.is_premium <=>
                \E u \in Authenticated(input) :
                    \E i \in 1..Len(db.unlocks) :
                        /\ db.unlocks[i].user_id = u
                        /\ db.unlocks[i].document_hash = [sha256 |-> input.coi_text]))

\* a report with is_premium set, returned to user 1 for the certificate
\* they unlocked
C22_Witness ==
    /\ response.status_code = 200
    /\ response.report.is_premium
    /\ input.auth_token = 2

----------------------------------------------------------------------------
(* Credit and unlock calls that overlap: each call has its own database    *)
(* session, loads rows with SELECT and writes the values it computed from  *)
(* them on commit                                                          *)

\* calls in flight at the same time
MaxWorkers == 2
\* credits granted in one behaviour
MaxCredits == 2

\* the one account of this part, created by signup with no credit
Account == 1

DocumentHashes == {hash_document(d) : d \in PaywallDocuments}

Operations == {"add_credits_to_user", "use_credit", "unlock_report", "stripe_webhook"}

\* the first statement of a call that touches the database
FirstStatement(op) ==
    CASE op = "add_credits_to_user" -> "add_query"
      [] op = "use_credit" -> "use_query"
      [] op = "unlock_report" -> "check_premium_access"
      [] op = "stripe_webhook" -> "add_query"

\* a worker that is handling no call
IdleWorker == [op |-> "none", document_hash |-> hash_document(None), pc |-> "idle",
               loaded |-> 0, returned |-> FALSE]

InitCredits ==
    /\ pc = "idle"
    /\ MOCK_MODE = TRUE
    /\ input = NoInput
    /\ coi_data = CompleteFacts
    /\ requirements = NoRequirements
    /\ state = NoState
    /\ result = NoResult
    /\ response = NoResponse
    /\ uploads = 0
    /\ tables = StartupTables
    /\ db = create_user(EmptyDb, Account)
    /\ tasks = [t \in 1..MaxWorkers |-> IdleWorker]
    /\ now = 0
    /\ history = NoHistory

\* what a statement of a call leaves alone
CallFrame ==
    UNCHANGED <<pc, coi_data, requirements, state, result, input, MOCK_MODE, response,
                uploads, tables, now>>

\* the function returns: stripe_webhook goes on to use_credit after
\* add_credits_to_user, every other call is over
AfterAdd(t) == IF tasks[t].op = "stripe_webhook" THEN "use_query" ELSE "return"

\* a call arrives; a credit is granted at most MaxCredits times
Accept(t) ==
    /\ tasks[t].pc = "idle"
    /\ \E op \in Operations, h \in DocumentHashes :
        /\ op \in {"add_credits_to_user", "stripe_webhook"} => history.added < MaxCredits
        /\ tasks' = [tasks EXCEPT ![t] =
              [op |-> op, document_hash |-> h, pc |-> FirstStatement(op),
               loaded |-> 0, returned |-> FALSE]]
    /\ UNCHANGED <<db, history>>
    /\ CallFrame

\* unlock_report: if check_premium_access(user.id, document_hash): return
CheckPremiumAccess(t) ==
    /\ tasks[t].pc = "check_premium_access"
    /\ tasks' = [tasks EXCEPT
          ![t].pc = IF check_premium_access(db, Account, tasks[t].document_hash)
                    THEN "return" ELSE "use_query",
          ![t].returned = check_premium_access(db, Account, tasks[t].document_hash)]
    /\ UNCHANGED <<db, history>>
    /\ CallFrame

\* add_credits_to_user: user = db.query(User)...first()
AddQuery(t) ==
    /\ tasks[t].pc = "add_query"
    /\ tasks' = [tasks EXCEPT
          ![t].pc = IF UserExists(db, Account) THEN "add_commit" ELSE AfterAdd(t),
          ![t].loaded = IF UserExists(db, Account) THEN db.credits[Account] ELSE 0,
          ![t].returned = FALSE]
    /\ UNCHANGED <<db, history>>
    /\ CallFrame

\* add_credits_to_user: user.credits += credits; db.commit()
AddCommit(t) ==
    /\ tasks[t].pc = "add_commit"
    /\ db' = CommitCredits(db, Account, tasks[t].loaded, 1)
    /\ history' = [history EXCEPT !.added = @ + 1]
    /\ tasks' = [tasks EXCEPT ![t].pc = AfterAdd(t), ![t].returned = TRUE]
    /\ CallFrame

\* use_credit: user = db.query(User)...first();
\* if not user or user.credits < 1: return False
UseQuery(t) ==
    /\ tasks[t].pc = "use_query"
    /\ tasks' = [tasks EXCEPT
          ![t].pc = IF UserExists(db, Account) /\ db.credits[Account] >= 1
                    THEN "use_existing" ELSE "return",
          ![t].loaded = IF UserExists(db, Account) THEN db.credits[Account] ELSE 0,
          ![t].returned = FALSE]
    /\ UNCHANGED <<db, history>>
    /\ CallFrame

\* use_credit: existing = db.query(PremiumUnlock)...first();
\* if existing: return True
UseExisting(t) ==
    /\ tasks[t].pc = "use_existing"
    /\ tasks' = [tasks EXCEPT
          ![t].pc = IF check_premium_access(db, Account, tasks[t].document_hash)
                    THEN "return" ELSE "use_commit",
          ![t].returned = check_premium_access(db, Account, tasks[t].document_hash)]
    /\ UNCHANGED <<db, history>>
    /\ CallFrame

\* use_credit: user.credits -= 1; db.add(unlock); db.commit(); return True
UseCommit(t) ==
    /\ tasks[t].pc = "use_commit"
    /\ db' = CommitUnlock(db, Account, tasks[t].document_hash, tasks[t].loaded)
    /\ tasks' = [tasks EXCEPT ![t].pc = "return", ![t].returned = TRUE]
    /\ UNCHANGED history
    /\ CallFrame

\* the response is sent and the worker takes the next call
Return(t) ==
    /\ tasks[t].pc = "return"
    /\ tasks' = [tasks EXCEPT ![t] = IdleWorker]
    /\ UNCHANGED <<db, history>>
    /\ CallFrame

NextCredits ==
    \E t \in 1..MaxWorkers :
        \/ Accept(t)
        \/ CheckPremiumAccess(t)
        \/ AddQuery(t)
        \/ AddCommit(t)
        \/ UseQuery(t)
        \/ UseExisting(t)
        \/ UseCommit(t)
        \/ Return(t)

SpecCredits == InitCredits /\ [][NextCredits]_vars

\* PremiumUnlock rows of the account
UnlocksOf(user_id) == SelectSeq(db.unlocks, LAMBDA row : row.user_id = user_id)

\* C26: credits are conserved under concurrency: in every interleaving of
\* use_credit and add_credits_to_user calls for one user the balance is
\* never negative and the credits ever added equal the current credits
\* plus the number of PremiumUnlock rows of that user; two unlocks never
\* both succeed on a single credit.
C26_CreditsConserved ==
    /\ db.credits[Account] >= 0
    /\ history.added = db.credits[Account] + Len(UnlocksOf(Account))

\* C27: in every interleaving of unlock-report requests, webhook deliveries
\* and use_credit calls there is at most one PremiumUnlock row per
\* (user_id, document_hash), so that unlocking one document deducts at
\* most one credit in total.
C27_OneUnlockPerDocument ==
    \A i, j \in 1..Len(db.unlocks) : db.unlocks[i] = db.unlocks[j] => i = j

----------------------------------------------------------------------------
(* Signup, login, logout, unlocks and webhook deliveries, one request at a *)
(* time                                                                    *)

\* accounts created and session tokens handed out in one behaviour
MaxAccounts == 1
MaxSessions == 2
\* days the clock runs
MaxNow == 45

\* the clock is read twice in the life of a session
ClockStep == SessionDays \div 2

\* an id with a row in users and one without
UserIds == 1..(MaxAccounts + 1)

\* no credentials, or a session token as the auth_token cookie or as the
\* Authorization Bearer header
SessionCredentials ==
    {[authorization |-> NoHeader, auth_token |-> NoToken]}
    \cup {[authorization |-> NoHeader, auth_token |-> T] : T \in 1..MaxSessions}
    \cup {[authorization |-> Bearer(T), auth_token |-> NoToken] : T \in 1..MaxSessions}

NoCredentials == [authorization |-> NoHeader, auth_token |-> NoToken]

\* a request: the route or function, its arguments, its header and cookie
Request(op, user_id, document_hash, credentials) ==
    [op |-> op, user_id |-> user_id, document_hash |-> document_hash] @@ credentials

\* the answer: status code, the user the request was served for, the value
\* of the last call (success / unlocked), the token handed out
Reply(status_code, user, returned, token) ==
    [status_code |-> status_code, user |-> user, returned |-> returned, token |-> token]

NoDocument == hash_document(None)

InitAccounts ==
    /\ pc = "idle"
    /\ MOCK_MODE = TRUE
    /\ input = NoInput
    /\ coi_data = CompleteFacts
    /\ requirements = NoRequirements
    /\ state = NoState
    /\ result = NoResult
    /\ response = NoResponse
    /\ uploads = 0
    /\ AtStartup

AccountFrame ==
    UNCHANGED <<pc, coi_data, requirements, state, result, MOCK_MODE, uploads, tables, tasks>>

\* generate_session_token(): a token no session was created with before
FreshToken == Cardinality(history.issued) + 1

Issued(token, user_id) == [token |-> token, user_id |-> user_id, issued_at |-> now]

\* create_user, create_session, set_cookie
Signup ==
    /\ Cardinality(DOMAIN db.credits) < MaxAccounts
    /\ FreshToken <= MaxSessions
    /\ db' = create_session(create_user(db, Cardinality(DOMAIN db.credits) + 1),
                            Cardinality(DOMAIN db.credits) + 1, FreshToken, now)
    /\ history' = [history EXCEPT
          !.issued = @ \cup {Issued(FreshToken, Cardinality(DOMAIN db.credits) + 1)}]
    /\ input' = Request("signup", Cardinality(DOMAIN db.credits) + 1, NoDocument,
                        NoCredentials)
    /\ response' = Reply(200, Cardinality(DOMAIN db.credits) + 1, TRUE, FreshToken)
    /\ UNCHANGED now
    /\ AccountFrame

\* get_user_by_email, verify_password, create_session, set_cookie
Login ==
    /\ FreshToken <= MaxSessions
    /\ \E user_id \in UserIds, password_ok \in BOOLEAN :
        /\ input' = Request("login", user_id, NoDocument, NoCredentials)
        /\ IF UserExists(db, user_id) /\ password_ok
           THEN /\ db' = create_session(db, user_id, FreshToken, now)
                /\ history' = [history EXCEPT !.issued = @ \cup {Issued(FreshToken, user_id)}]
                /\ response' = Reply(200, user_id, TRUE, FreshToken)
           ELSE /\ response' = Reply(401, NoUser, FALSE, NoToken)
                /\ UNCHANGED <<db, history>>
    /\ UNCHANGED now
    /\ AccountFrame

\* the token a request presents: the bearer token before the cookie
PresentedBy(request) ==
    IF HeaderOf(request).scheme = "Bearer" THEN HeaderOf(request).token
    ELSE CookieOf(request)

\* token = request.cookies.get("auth_token"); if token: delete_session(token)
Logout ==
    /\ \E credentials \in SessionCredentials :
        /\ input' = Request("logout", NoUser, NoDocument, credentials)
        /\ db' = IF CookieOf(credentials) # NoToken
                 THEN delete_session(db, CookieOf(credentials)) ELSE db
        /\ history' = [history EXCEPT
              !.logged_out = @ \cup ({PresentedBy(credentials)} \ {NoToken})]
    /\ response' = Reply(200, NoUser, TRUE, NoToken)
    /\ UNCHANGED now
    /\ AccountFrame

\* {"authenticated": ..., "user": ...}
GetMe ==
    /\ \E credentials \in SessionCredentials :
        /\ input' = Request("get_me", NoUser, NoDocument, credentials)
        /\ response' = Reply(200, get_current_user(db, credentials, now),
                             get_current_user(db, credentials, now) # NoUser, NoToken)
    /\ UNCHANGED <<db, now, history>>
    /\ AccountFrame

\* use_credit called for a user and a document hash
UseCredit ==
    /\ \E user_id \in UserIds, h \in DocumentHashes :
        /\ input' = Request("use_credit", user_id, h, NoCredentials)
        /\ db' = use_credit(db, user_id, h).db
        /\ response' = Reply(200, user_id, use_credit(db, user_id, h).returned, NoToken)
    /\ UNCHANGED <<now, history>>
    /\ AccountFrame

\* unlock_report for the user of the request
unlock_report(d, user, document_hash) ==
    IF user = NoUser THEN [db |-> d, response |-> Reply(401, NoUser, FALSE, NoToken)]
    ELSE IF check_premium_access(d, user, document_hash)
    THEN [db |-> d, response |-> Reply(200, user, TRUE, NoToken)]
    ELSE IF use_credit(d, user, document_hash).returned
    THEN [db |-> use_credit(d, user, document_hash).db,
          response |-> Reply(200, user, TRUE, NoToken)]
    ELSE [db |-> use_credit(d, user, document_hash).db,
          response |-> Reply(402, user, FALSE, NoToken)]

UnlockReport ==
    /\ \E credentials \in SessionCredentials, h \in DocumentHashes :
        /\ input' = Request("unlock_report", NoUser, h, credentials)
        /\ db' = unlock_report(db, get_current_user(db, credentials, now), h).db
        /\ response' = unlock_report(db, get_current_user(db, credentials, now), h).response
    /\ UNCHANGED <<now, history>>
    /\ AccountFrame

\* checkout.session.completed: add_credits_to_user(int(user_id), 1);
\* use_credit(int(user_id), document_hash)
stripe_webhook(d, user_id, document_hash) ==
    use_credit(add_credits_to_user(d, user_id, 1).db, user_id, document_hash)

StripeWebhook ==
    /\ history.added < MaxCredits
    /\ \E user_id \in UserIds, h \in DocumentHashes :
        /\ input' = Request("stripe_webhook", user_id, h, NoCredentials)
        /\ db' = stripe_webhook(db, user_id, h).db
        /\ history' = [history EXCEPT
              !.added = @ + (IF add_credits_to_user(db, user_id, 1).returned THEN 1 ELSE 0)]
        /\ response' = Reply(200, user_id, stripe_webhook(db, user_id, h).returned, NoToken)
    /\ UNCHANGED now
    /\ AccountFrame

\* time passes between two requests
Tick ==
    /\ now + ClockStep <= MaxNow
    /\ now' = now + ClockStep
    /\ input' = NoInput
    /\ response' = NoResponse
    /\ UNCHANGED <<db, history>>
    /\ AccountFrame

NextAccounts ==
    \/ Signup
    \/ Login
    \/ Logout
    \/ GetMe
    \/ UseCredit
    \/ UnlockReport
    \/ StripeWebhook
    \/ Tick

SpecAccounts == InitAccounts /\ [][NextAccounts]_vars

----------------------------------------------------------------------------
(* Properties of the webhook, of use_credit and of sessions *)

\* the route or function a request was for
OpOf(request) == IF "op" \in DOMAIN request THEN request.op ELSE "none"

\* C28: handling a checkout.session.completed webhook for (user, document)
\* leaves the document unlocked for the user and the credit balance equal
\* to its value before the event, and delivering the same event a second
\* time leaves credits and unlocks exactly as they were after the first
\* delivery.
C28_WebhookKeepsBalance ==
    [][(OpOf(input') = "stripe_webhook" /\ UserExists(db, input'.user_id))
       => /\ check_premium_access(db', input'.user_id, input'.document_hash)
          /\ db'.credits[input'.user_id] = db.credits[input'.user_id]
          /\ (input = input' => db' = db)]_vars

\* C29: use_credit returns True and deducts nothing whenever the document
\* is already unlocked for the user, whatever the balance (including 0);
\* it returns False only when the document is not unlocked and the user
\* has no credit or does not exist, and then changes no state.
C29_UseCreditOutcome ==
    [][OpOf(input') = "use_credit"
       => /\ (UserExists(db, input'.user_id)
              /\ check_premium_access(db, input'.user_id, input'.document_hash))
             => (response'.returned /\ db' = db)
          /\ ~response'.returned
             => /\ ~check_premium_access(db, input'.user_id, input'.document_hash)
                /\ (~UserExists(db, input'.user_id) \/ db.credits[input'.user_id] = 0)
                /\ db' = db]_vars

\* C30: a session token authenticates a request only if it was issued by
\* signup or login for that user, has not expired and has not been logged
\* out: after a logout request made with token T, as the auth_token cookie
\* or as an Authorization Bearer header, no later request presenting T is
\* authenticated.
C30_TokenLifecycle ==
    (OpOf(input) = "get_me" /\ response.user # NoUser)
    => /\ \E i \in history.issued :
            /\ i.token = PresentedBy(input)
            /\ i.user_id = response.user
            /\ now < i.issued_at + SessionDays
       /\ PresentedBy(input) \notin history.logged_out

====
